---- MODULE Spec2Model ----
(***************************************************************************)
(* Model of the product importer's asynchronous CSV import pipeline:        *)
(* upload endpoint (app/api/imports.py), import task, row validator and     *)
(* upsert engine (app/tasks/import_csv.py), the durable job table           *)
(* (app/models/import_job.py), the product table (app/models/product.py)    *)
(* and the Redis progress channel; of the product store under the product   *)
(* API (app/api/products.py) and concurrent batch upserts; and of webhook   *)
(* fan-out and delivery (app/tasks/webhook_sender.py) next to the webhook   *)
(* API (app/api/webhooks.py).                                               *)
(*                                                                         *)
(* Strings are sequences of one-character strings, so that strip(), upper() *)
(* and the number parsers are computed, not assumed.  Python's None is the  *)
(* one-element sequence None, which no string over the alphabet equals.     *)
(***************************************************************************)
EXTENDS Integers, Sequences, FiniteSets, TLC

\* ------------------------------------------------------------------ bounds
\* settings.CHUNK_SIZE and settings.PROGRESS_UPDATE_INTERVAL are read from the
\* environment (defaults 5000 and 1000); the model runs them scaled down.
CHUNK_SIZE == 2
PROGRESS_UPDATE_INTERVAL == 3
\* data entries (records or blank lines) after the header of an uploaded file
MaxLines == 3
\* the cap on stored row errors (the literal 100 of import_csv.py:163), scaled
MaxStoredErrors == 2

\* ------------------------------------------------------------ Python values
None == <<"None">>

Columns == {"sku", "name", "description", "price", "quantity"}

\* ------------------------------------------------------------ str methods
RECURSIVE LStrip(_)
LStrip(s) == IF s # <<>> /\ Head(s) = " " THEN LStrip(Tail(s)) ELSE s

RECURSIVE RStrip(_)
RStrip(s) ==
    IF s # <<>> /\ s[Len(s)] = " " THEN RStrip(SubSeq(s, 1, Len(s) - 1)) ELSE s

\* str.strip()
Strip(s) == RStrip(LStrip(s))

UpperChar(c) ==
    CASE c = "a" -> "A"
      [] c = "b" -> "B"
      [] c = "c" -> "C"
      [] c = "x" -> "X"
      [] c = "y" -> "Y"
      [] OTHER -> c

\* upper() that leaves the case as it is
UpperKeepsCase(s) == s

\* str.upper()
Upper(s) == [i \in 1..Len(s) |-> UpperChar(s[i])]

Digits == {"0", "1", "2", "5"}

DigitVal(c) ==
    CASE c = "0" -> 0
      [] c = "1" -> 1
      [] c = "2" -> 2
      [] c = "5" -> 5
      [] OTHER -> 0

RECURSIVE DigitsValue(_)
DigitsValue(s) ==
    IF s = <<>> THEN 0
    ELSE 10 * DigitsValue(SubSeq(s, 1, Len(s) - 1)) + DigitVal(s[Len(s)])

AllDigits(s) == \A i \in 1..Len(s) : s[i] \in Digits

HasSign(s) == s # <<>> /\ Head(s) \in {"-", "+"}

Unsigned(s) == IF HasSign(s) THEN Tail(s) ELSE s

\* int(str): an optional sign and at least one digit; anything else is a
\* ValueError (ok = FALSE).
ParseInt(s) ==
    LET u == Unsigned(s)
        ok == u # <<>> /\ AllDigits(u)
        v == DigitsValue(u)
    IN [ok |-> ok,
        value |-> IF ~ok THEN 0 ELSE IF HasSign(s) /\ Head(s) = "-" THEN 0 - v ELSE v]

\* Decimal(str): an optional sign, digits with at most one decimal point and at
\* least one digit; anything else is InvalidOperation (ok = FALSE).  The value
\* is sign * coef / 10^scale, kept exactly (Decimal("-0") is negative zero and
\* does not compare below 0).
ParseDecimal(s) ==
    LET u == Unsigned(s)
        dots == {i \in 1..Len(u) : u[i] = "."}
        pos == IF dots = {} THEN Len(u) + 1 ELSE CHOOSE i \in dots : TRUE
        ip == SubSeq(u, 1, pos - 1)
        fp == SubSeq(u, pos + 1, Len(u))
        ok == /\ Cardinality(dots) <= 1
              /\ AllDigits(ip) /\ AllDigits(fp)
              /\ Len(ip) + Len(fp) >= 1
    IN [ok |-> ok,
        neg |-> ok /\ HasSign(s) /\ Head(s) = "-",
        coef |-> IF ok THEN DigitsValue(ip \o fp) ELSE 0,
        scale |-> IF ok THEN Len(fp) ELSE 0]

\* Decimal < 0 that goes by the sign alone
DecimalNegativeBySign(d) == d.neg

\* Decimal < 0
DecimalNegative(d) == d.neg /\ d.coef > 0

\* dict.get(key, default) on a csv.DictReader row: the default only when the
\* header has no such column; a short row holds None for its missing fields.
Get(row, key, default) == IF key \in DOMAIN row THEN row[key] ELSE default

\* ------------------------------------------------------------ Row Validator
NoPrice == [ok |-> FALSE, neg |-> FALSE, coef |-> 0, scale |-> 0]

ErrSkuRequired == [msg |-> "SKU is required", raw |-> <<>>]
ErrNameRequired == [msg |-> "Name is required", raw |-> <<>>]
ErrPriceNegative == [msg |-> "Price cannot be negative", raw |-> <<>>]
ErrPriceFormat(raw) == [msg |-> "Invalid price format", raw |-> raw]
ErrQuantityNegative == [msg |-> "Quantity cannot be negative", raw |-> <<>>]
ErrQuantityFormat(raw) == [msg |-> "Invalid quantity format", raw |-> raw]

\* the errors list of parse_csv_row, in the order the rules append to it
RowErrors(sku, name, price_str, quantity_str) ==
    (IF sku = <<>> THEN <<ErrSkuRequired>> ELSE <<>>)
    \o (IF name = <<>> THEN <<ErrNameRequired>> ELSE <<>>)
    \o (IF price_str = <<>> THEN <<>>
        ELSE IF ~ParseDecimal(price_str).ok THEN <<ErrPriceFormat(price_str)>>
        ELSE IF DecimalNegative(ParseDecimal(price_str)) THEN <<ErrPriceNegative>>
        ELSE <<>>)
    \o (IF quantity_str = <<>> THEN <<>>
        ELSE IF ~ParseInt(quantity_str).ok THEN <<ErrQuantityFormat(quantity_str)>>
        ELSE IF ParseInt(quantity_str).value < 0 THEN <<ErrQuantityNegative>>
        ELSE <<>>)

\* parse_csv_row(row, row_num).  A field that is None (a row shorter than the
\* header) makes .strip() raise AttributeError, which the validator does not
\* catch: the result is then the record [raised |-> "AttributeError"].
parse_csv_row(row, row_num) ==
    LET raw == [c \in Columns |-> Get(row, c, <<>>)]
    IN  IF \E c \in Columns : raw[c] = None
        THEN [raised |-> "AttributeError"]
        ELSE
        LET sku == Strip(raw["sku"])
            name == Strip(raw["name"])
            stripped == Strip(raw["description"])
            description == IF stripped = <<>> THEN None ELSE stripped
            price_str == Strip(raw["price"])
            quantity_str == Strip(raw["quantity"])
            errors == RowErrors(sku, name, price_str, quantity_str)
        IN  IF errors # <<>>
            THEN [valid |-> FALSE, errors |-> errors, row |-> row_num]
            ELSE [valid |-> TRUE,
                  data |-> [sku |-> Upper(sku),
                            name |-> name,
                            description |-> description,
                            price |-> IF price_str = <<>> THEN NoPrice
                                      ELSE ParseDecimal(price_str),
                            quantity |-> IF quantity_str = <<>> THEN 0
                                         ELSE ParseInt(quantity_str).value,
                            is_active |-> TRUE]]

Raised(parsed) == "raised" \in DOMAIN parsed

\* ------------------------------------------------------------ uploaded files
\* A file is a sequence of entries; a non-empty file starts with its header
\* line.  An entry is a blank line, or one CSV record that takes `lines`
\* physical lines (2 when a quoted field holds a line break).
BlankRow == [c \in Columns |-> <<>>]
HeaderLine == [kind |-> "header", lines |-> 1, row |-> BlankRow]
BlankLine == [kind |-> "blank", lines |-> 1, row |-> BlankRow]
Record(row, lines) == [kind |-> "record", lines |-> lines, row |-> row]

RowA == [sku |-> <<"a">>, name |-> <<"x">>, description |-> <<>>,
         price |-> <<"5">>, quantity |-> <<"1">>]
RowA2 == [sku |-> <<"A", " ">>, name |-> <<"y">>, description |-> <<"x">>,
          price |-> <<>>, quantity |-> <<>>]
RowB == [sku |-> <<"b">>, name |-> <<"x">>, description |-> <<>>,
         price |-> <<"1", ".", "5">>, quantity |-> <<>>]
RowNoName == [sku |-> <<"c">>, name |-> <<" ">>, description |-> <<>>,
              price |-> <<"-", "5">>, quantity |-> <<>>]
RowShort == [sku |-> <<"c">>, name |-> <<"x">>, description |-> None,
             price |-> None, quantity |-> None]

Entries ==
    {BlankLine, Record(RowA, 1), Record(RowA2, 1), Record(RowB, 1),
     Record(RowB, 2), Record(RowNoName, 1), Record(RowShort, 1)}

RECURSIVE SeqsUpTo(_, _)
SeqsUpTo(S, n) ==
    IF n = 0 THEN {<<>>}
    ELSE LET shorter == SeqsUpTo(S, n - 1)
         IN shorter \cup {Append(q, e) : q \in {r \in shorter : Len(r) = n - 1}, e \in S}

Files == {<<>>} \cup {<<HeaderLine>> \o body : body \in SeqsUpTo(Entries, MaxLines)}

RECURSIVE PhysicalLines(_)
PhysicalLines(file) ==
    IF file = <<>> THEN 0 ELSE Head(file).lines + PhysicalLines(Tail(file))

\* count_csv_rows: sum(1 for _ in f) - 1
count_csv_rows(file) == PhysicalLines(file) - 1

RECURSIVE RecordsOf(_)
RecordsOf(entries) ==
    IF entries = <<>> THEN <<>>
    ELSE IF Head(entries).kind = "record"
         THEN <<Head(entries).row>> \o RecordsOf(Tail(entries))
         ELSE RecordsOf(Tail(entries))

\* csv.DictReader(f): the first line is the header, blank lines are skipped,
\* a quoted line break stays inside its record.
DictReader(file) == IF file = <<>> THEN <<>> ELSE RecordsOf(Tail(file))

\* ------------------------------------------------------------ Upsert Engine
\* The products table is a set of rows; sku carries a unique constraint.
Max(S) == CHOOSE m \in S : \A x \in S : x <= m

NextProductId(rows) == IF rows = {} THEN 1 ELSE 1 + Max({r.id : r \in rows})

BatchSkus(batch) == {batch[i].sku : i \in 1..Len(batch)}

\* db.query(Product.sku).filter(func.upper(Product.sku).in_(skus))
existing_skus(rows, batch) == {r.sku : r \in {q \in rows : Upper(q.sku) \in BatchSkus(batch)}}

\* the loop of upsert_products that splits the batch into created and updated,
\* given the SKUs its query found
CreatedGiven(batch, existing) ==
    Cardinality({i \in 1..Len(batch) : batch[i].sku \notin existing})

UpdatedGiven(batch, existing) ==
    Cardinality({i \in 1..Len(batch) : batch[i].sku \in existing})

created_count_of(rows, batch) == CreatedGiven(batch, existing_skus(rows, batch))

updated_count_of(rows, batch) == UpdatedGiven(batch, existing_skus(rows, batch))

\* UpsertRow with is_active among the columns set on conflict
UpsertRowSetsActive(rows, p, now, utcnow) ==
    IF \E r \in rows : r.sku = p.sku
    THEN {IF r.sku = p.sku
          THEN [r EXCEPT !.name = p.name, !.description = p.description,
                         !.price = p.price, !.quantity = p.quantity,
                         !.is_active = p.is_active, !.updated_at = utcnow]
          ELSE r : r \in rows}
    ELSE rows \cup {[id |-> NextProductId(rows), sku |-> p.sku, name |-> p.name,
                     description |-> p.description, price |-> p.price,
                     quantity |-> p.quantity, is_active |-> p.is_active,
                     created_at |-> now, updated_at |-> now]}

\* UpsertRow as ON CONFLICT (sku) DO NOTHING
UpsertRowKeepsExisting(rows, p, now, utcnow) ==
    IF \E r \in rows : r.sku = p.sku
    THEN rows
    ELSE rows \cup {[id |-> NextProductId(rows), sku |-> p.sku, name |-> p.name,
                     description |-> p.description, price |-> p.price,
                     quantity |-> p.quantity, is_active |-> p.is_active,
                     created_at |-> now, updated_at |-> now]}

\* INSERT ... ON CONFLICT (sku) DO UPDATE of one row of the VALUES list: an
\* inserted row takes the column defaults func.now(), the transaction's `now`;
\* a row in conflict takes the datetime.utcnow() of line 313, `utcnow`
UpsertRow(rows, p, now, utcnow) ==
    IF \E r \in rows : r.sku = p.sku
    THEN {IF r.sku = p.sku
          THEN [r EXCEPT !.name = p.name, !.description = p.description,
                         !.price = p.price, !.quantity = p.quantity,
                         !.updated_at = utcnow]
          ELSE r : r \in rows}
    ELSE rows \cup {[id |-> NextProductId(rows), sku |-> p.sku, name |-> p.name,
                     description |-> p.description, price |-> p.price,
                     quantity |-> p.quantity, is_active |-> p.is_active,
                     created_at |-> now, updated_at |-> now]}

RECURSIVE UpsertRows(_, _, _, _)
UpsertRows(rows, batch, now, utcnow) ==
    IF batch = <<>> THEN rows
    ELSE UpsertRows(UpsertRow(rows, Head(batch), now, utcnow), Tail(batch), now, utcnow)

\* PostgreSQL rejects an INSERT ... ON CONFLICT DO UPDATE whose VALUES list
\* proposes the same key twice ("cannot affect row a second time").
AffectsRowTwice(batch) ==
    \E i, k \in 1..Len(batch) : i # k /\ batch[i].sku = batch[k].sku

\* upsert_products(db, products) against the table `rows`, when no other
\* transaction commits between its query and its statement
upsert_products(rows, batch, now) ==
    IF batch = <<>> THEN [created |-> 0, updated |-> 0, rows |-> rows]
    ELSE IF AffectsRowTwice(batch) THEN [raised |-> "CardinalityViolation"]
    ELSE [created |-> created_count_of(rows, batch),
          updated |-> updated_count_of(rows, batch),
          rows |-> UpsertRows(rows, batch, now, now)]

\* ------------------------------------------------------------------- state
VARIABLES
    new_ids,        \* upload requests not made yet, each named by its uuid4()
    import_jobs,    \* the import_jobs table: job id -> committed row
    uploads,        \* files under UPLOAD_DIR: job id -> content
    progress,       \* Redis keys import_progress:<job id> -> snapshot
    products,       \* the products table
    task,           \* import_csv_task invocations: job id -> position and locals
    webhook_queue,  \* trigger_webhooks messages handed to the broker
    responses,      \* the HTTP response of each upload request made
    clock,          \* the store's now()
    store_ops,      \* product requests and batch upserts in flight or done
    webhooks,       \* the webhooks table: webhook id -> committed row
    deliveries,     \* send_webhook messages: delivery id -> message and run
    fanouts,        \* what each finished trigger_webhooks invocation returned
    validated,      \* raw rows handed to parse_csv_row and what it returned
    requests        \* status, stream and delete requests of the import API

vars == <<new_ids, import_jobs, uploads, progress, products, task, webhook_queue,
          responses, clock, store_ops, webhooks, deliveries, fanouts, validated,
          requests>>

\* what the import pipeline never touches
outside_import ==
    <<clock, store_ops, webhooks, deliveries, fanouts, validated, requests>>

\* ImportJob(id, filename, status="pending") with the column defaults
NewImportJob(filename) ==
    [filename |-> filename, status |-> "pending", total_rows |-> 0, processed_rows |-> 0,
     success_count |-> 0, error_count |-> 0, created_count |-> 0,
     updated_count |-> 0, error_details |-> <<>>,
     started_at |-> "NULL", completed_at |-> "NULL"]

ExistingProduct ==
    [id |-> 1, sku |-> <<"A">>, name |-> <<"x">>, description |-> None,
     price |-> NoPrice, quantity |-> 0, is_active |-> FALSE,
     created_at |-> 0, updated_at |-> 0]

Init ==
    /\ new_ids = {"j1"}
    /\ import_jobs = <<>>
    /\ uploads = <<>>
    /\ progress = <<>>
    /\ products \in {{}, {ExistingProduct}}
    /\ task = <<>>
    /\ webhook_queue = <<>>
    /\ responses = <<>>
    /\ clock = 0
    /\ store_ops = <<>>
    /\ webhooks = <<>>
    /\ deliveries = <<>>
    /\ fanouts = <<>>
    /\ validated = <<>>
    /\ requests = <<>>

\* f with key k set to v (a new key, or an overwrite)
SetKey(f, k, v) == [x \in DOMAIN f \cup {k} |-> IF x = k THEN v ELSE f[x]]

\* f without key k
DelKey(f, k) == [x \in DOMAIN f \ {k} |-> f[x]]

\* ------------------------------------------------------------ upload_csv
\* the locals of import_csv_task at its start (lines 144-150 zero them again);
\* input and store_at_start remember the content the task was queued for and
\* the product table at that time
NewTask ==
    [pc |-> "queued", orm |-> NewImportJob(<<>>), total_rows |-> 0,
     processed_rows |-> 0, success_count |-> 0, error_count |-> 0,
     created_count |-> 0, updated_count |-> 0, error_details |-> <<>>,
     batch |-> <<>>, reader |-> <<>>, row_num |-> 2,
     exc |-> "none", handler_exc |-> "none", handler_done |-> FALSE,
     result |-> "none", faults |-> {}, total_known |-> FALSE,
     input |-> <<>>, store_at_start |-> {}, upserts |-> 0]

\* a comparison of the extension without its dot
EndsWithExtension(s, suffix) ==
    Len(s) >= Len(suffix) - 1
    /\ SubSeq(s, Len(s) - Len(suffix) + 2, Len(s)) = Tail(suffix)

\* str.endswith(suffix)
EndsWith(s, suffix) ==
    Len(s) >= Len(suffix) /\ SubSeq(s, Len(s) - Len(suffix) + 1, Len(s)) = suffix

DotCsv == <<".", "c", "s", "v">>

Filenames == {<<"p">> \o DotCsv, <<"p", ".", "t", "x", "t">>, <<"c", "s", "v">>}

\* the job row upload_csv commits when import_csv_task.delay raises
QueueFailedJob(filename) ==
    [NewImportJob(filename) EXCEPT
        !.status = "failed",
        !.error_details = <<[message |-> "Failed to queue task"]>>]

\* POST /upload.  A filename that does not end in .csv is refused with 400
\* before anything is written.  Otherwise the content is written under the
\* new job id (a failure there is a 500, and may leave the file open() had
\* created), the pending job row is committed and the task is queued; when
\* delay() raises, the row is committed again as failed and the request ends
\* in a 500.
upload_csv(j, filename, file, outcome) ==
    /\ j \in new_ids
    /\ new_ids' = new_ids \ {j}
    /\ IF ~EndsWith(filename, DotCsv)
       THEN /\ responses' = SetKey(responses, j, [code |-> 400, job_id |-> "none", filename |-> filename])
            /\ UNCHANGED <<uploads, import_jobs, task>>
       ELSE CASE outcome = "write_failed" ->
                   /\ responses' = SetKey(responses, j, [code |-> 500, job_id |-> "none", filename |-> filename])
                   /\ uploads' \in {uploads, SetKey(uploads, j, <<>>)}
                   /\ UNCHANGED <<import_jobs, task>>
              [] outcome = "delay_failed" ->
                   /\ responses' = SetKey(responses, j, [code |-> 500, job_id |-> "none", filename |-> filename])
                   /\ uploads' = SetKey(uploads, j, file)
                   /\ import_jobs' = SetKey(import_jobs, j, QueueFailedJob(filename))
                   /\ task' = task
              [] outcome = "queued" ->
                   /\ responses' = SetKey(responses, j, [code |-> 200, job_id |-> j, filename |-> filename])
                   /\ uploads' = SetKey(uploads, j, file)
                   /\ import_jobs' = SetKey(import_jobs, j, NewImportJob(filename))
                   /\ task' = SetKey(task, j, [NewTask EXCEPT !.input = file,
                                                            !.store_at_start = products])
    /\ UNCHANGED <<progress, products, webhook_queue>>

Upload ==
    \E j \in new_ids, filename \in Filenames, file \in Files,
       outcome \in {"write_failed", "delay_failed", "queued"} :
        upload_csv(j, filename, file, outcome)

\* ------------------------------------------------------------ import_csv_task
\* the task's position is the source line it executes next
Running(j, line) == j \in DOMAIN task /\ task[j].pc = line

\* an exception leaves the try body for the handler at line 255
Raise(t, e, fault) ==
    [t EXCEPT !.pc = "L257", !.exc = e, !.faults = @ \cup fault]

\* an exception inside the handler leaves the task in place of the one handled
RaiseInHandler(t, e, fault) ==
    [t EXCEPT !.pc = "raised", !.handler_exc = e, !.faults = @ \cup fault]

\* db.commit() of the session's import_job object
Committed(j, orm) == [import_jobs EXCEPT ![j] = orm]

\* the UPDATE of a commit matches the job's row, unless the row was deleted
\* meanwhile: then the flush raises StaleDataError
RowPresent(j) == j \in DOMAIN import_jobs

CommitError(j) == IF RowPresent(j) THEN "OperationalError" ELSE "StaleDataError"

\* lines 104-108
TaskLoad(j) ==
    /\ Running(j, "queued")
    /\ task' = [task EXCEPT ![j] =
          IF j \in DOMAIN import_jobs
          THEN [@ EXCEPT !.pc = "L112", !.orm = import_jobs[j]]
          ELSE [@ EXCEPT !.pc = "returned", !.result = "Import job not found"]]
    /\ UNCHANGED <<new_ids, responses, import_jobs, uploads, progress, products, webhook_queue>>

\* lines 112-114
SetParsing(j) ==
    /\ Running(j, "L112")
    /\ LET orm == [task[j].orm EXCEPT !.status = "parsing", !.started_at = "utcnow"]
           t == [task[j] EXCEPT !.orm = orm]
       IN \E ok \in BOOLEAN :
            IF ok /\ RowPresent(j)
            THEN /\ import_jobs' = Committed(j, orm)
                 /\ task' = [task EXCEPT ![j] = [t EXCEPT !.pc = "L116"]]
            ELSE /\ import_jobs' = import_jobs
                 /\ task' = [task EXCEPT ![j] = Raise(t, CommitError(j), {"store"})]
    /\ UNCHANGED <<new_ids, responses, uploads, progress, products, webhook_queue>>

\* update_progress(job_id, data): SET with expiry, or the client raises
Publish(j, data, next) ==
    \E ok \in BOOLEAN :
        IF ok
        THEN /\ progress' = SetKey(progress, j, data)
             /\ task' = [task EXCEPT ![j] = [@ EXCEPT !.pc = next]]
        ELSE /\ progress' = progress
             /\ task' = [task EXCEPT ![j] = Raise(@, "ConnectionError", {"fast_store"})]

ParsingSnapshot ==
    [status |-> "parsing", processed_rows |-> 0, total_rows |-> 0,
     success_count |-> 0, error_count |-> 0, created_count |-> 0, updated_count |-> 0]

\* lines 116-125
PublishParsing(j) ==
    /\ Running(j, "L116")
    /\ Publish(j, ParsingSnapshot, "L128")
    /\ UNCHANGED <<new_ids, responses, import_jobs, uploads, products, webhook_queue>>

\* lines 128-130
CountRows(j) ==
    /\ Running(j, "L128")
    /\ IF j \notin DOMAIN uploads
       THEN /\ task' = [task EXCEPT ![j] = Raise(@, "FileNotFoundError", {"fs"})]
            /\ import_jobs' = import_jobs
       ELSE LET total == count_csv_rows(uploads[j])
                orm == [task[j].orm EXCEPT !.total_rows = total]
                t == [task[j] EXCEPT !.total_rows = total, !.orm = orm]
                known == [t EXCEPT !.total_known = TRUE]
            IN \E chosen \in {"ok", "fs", "store"} :
                LET outcome == IF chosen = "ok" /\ ~RowPresent(j)
                               THEN "store" ELSE chosen
                IN
                CASE outcome = "ok" ->
                       /\ import_jobs' = Committed(j, orm)
                       /\ task' = [task EXCEPT ![j] = [known EXCEPT !.pc = "L132"]]
                  [] outcome = "fs" ->
                       /\ import_jobs' = import_jobs
                       /\ task' = [task EXCEPT ![j] = Raise(@, "OSError", {"fs"})]
                  [] outcome = "store" ->
                       /\ import_jobs' = import_jobs
                       /\ task' = [task EXCEPT ![j] = Raise(t, CommitError(j), {"store"})]
    /\ UNCHANGED <<new_ids, responses, uploads, progress, products, webhook_queue>>

ValidatingSnapshot(total_rows) ==
    [status |-> "validating", processed_rows |-> 0, total_rows |-> total_rows,
     success_count |-> 0, error_count |-> 0, created_count |-> 0, updated_count |-> 0]

\* lines 132-141
PublishValidating(j) ==
    /\ Running(j, "L132")
    /\ Publish(j, ValidatingSnapshot(task[j].total_rows), "L152")
    /\ UNCHANGED <<new_ids, responses, import_jobs, uploads, products, webhook_queue>>

\* lines 144-153
OpenFile(j) ==
    /\ Running(j, "L152")
    /\ IF j \notin DOMAIN uploads
       THEN task' = [task EXCEPT ![j] = Raise(@, "FileNotFoundError", {"fs"})]
       ELSE \E ok \in BOOLEAN :
              IF ok
              THEN task' = [task EXCEPT ![j] =
                        [@ EXCEPT !.pc = "L155", !.reader = DictReader(uploads[j]),
                                  !.row_num = 2]]
              ELSE task' = [task EXCEPT ![j] = Raise(@, "OSError", {"fs"})]
    /\ UNCHANGED <<new_ids, responses, import_jobs, uploads, progress, products, webhook_queue>>

\* the entry of error_details for an invalid row (lines 164-168)
RowError(row, row_num, parsed) ==
    [row |-> row_num, errors |-> parsed.errors, sku |-> Get(row, "sku", <<>>)]

\* CountRow with a full error list dropping its oldest entry for the new one
CountRowKeepsLatest(t, row, parsed) ==
    IF parsed.valid
    THEN [t EXCEPT !.batch = Append(@, parsed.data),
                   !.success_count = @ + 1,
                   !.processed_rows = @ + 1]
    ELSE [t EXCEPT !.error_count = @ + 1,
                   !.error_details =
                       IF Len(@) < MaxStoredErrors
                       THEN Append(@, RowError(row, t.row_num, parsed))
                       ELSE Append(Tail(@), RowError(row, t.row_num, parsed)),
                   !.processed_rows = @ + 1]

\* CountRow with processed_rows += 1 moved into the valid branch
CountRowSkipsInvalid(t, row, parsed) ==
    IF parsed.valid
    THEN [t EXCEPT !.batch = Append(@, parsed.data),
                   !.success_count = @ + 1,
                   !.processed_rows = @ + 1]
    ELSE [t EXCEPT !.error_count = @ + 1,
                   !.error_details =
                       IF Len(@) < MaxStoredErrors
                       THEN Append(@, RowError(row, t.row_num, parsed))
                       ELSE @]

\* lines 158-170: the locals after one parsed row
CountRow(t, row, parsed) ==
    IF parsed.valid
    THEN [t EXCEPT !.batch = Append(@, parsed.data),
                   !.success_count = @ + 1,
                   !.processed_rows = @ + 1]
    ELSE [t EXCEPT !.error_count = @ + 1,
                   !.error_details =
                       IF Len(@) < MaxStoredErrors
                       THEN Append(@, RowError(row, t.row_num, parsed))
                       ELSE @,
                   !.processed_rows = @ + 1]

\* a progress update after every row
AfterChunkCheckEveryRow(t) == "L181"

\* where the loop body goes after line 170 and after the chunk flush; line
\* 180 is the progress test that follows the chunk test
AfterChunkCheck(t) ==
    IF t.processed_rows % PROGRESS_UPDATE_INTERVAL = 0 THEN "L181" ELSE "L155"

AfterRow(t) == IF Len(t.batch) >= CHUNK_SIZE THEN "L174" ELSE AfterChunkCheck(t)

\* lines 155-173: one iteration of the reader loop up to the chunk test, or
\* the end of the loop
RowStep(j) ==
    /\ Running(j, "L155")
    /\ LET t == task[j]
       IN IF t.reader = <<>>
          THEN task' = [task EXCEPT ![j] = [t EXCEPT !.pc = "L202"]]
          ELSE LET row == Head(t.reader)
                   parsed == parse_csv_row(row, t.row_num)
               IN IF Raised(parsed)
                  THEN task' = [task EXCEPT ![j] = Raise(t, parsed.raised, {})]
                  ELSE LET counted == CountRow(t, row, parsed)
                       IN task' = [task EXCEPT ![j] =
                               [counted EXCEPT !.reader = Tail(t.reader),
                                               !.row_num = t.row_num + 1,
                                               !.pc = AfterRow(counted)]]
    /\ UNCHANGED <<new_ids, responses, import_jobs, uploads, progress, products, webhook_queue>>

\* FoldUpsert with the updated rows added to created_count as well
FoldUpsertCountsUpdatedTwice(t, res) ==
    [t EXCEPT !.created_count = @ + res.created + res.updated,
              !.updated_count = @ + res.updated,
              !.batch = <<>>]

\* lines 174-177 and 203-205: fold one upsert result into the locals
FoldUpsert(t, res) ==
    [t EXCEPT !.created_count = @ + res.created,
              !.updated_count = @ + res.updated,
              !.batch = <<>>]

\* a call of upsert_products from the task: the statement and its commit
\* succeed, PostgreSQL rejects the statement, or the store is unavailable;
\* upserts counts the calls the task has made
Flush(j, next) ==
    LET t == [task[j] EXCEPT !.upserts = @ + 1]
        res == upsert_products(products, t.batch, clock)
    IN \E ok \in BOOLEAN :
         IF ~ok
         THEN /\ products' = products
              /\ task' = [task EXCEPT ![j] = Raise(t, "OperationalError", {"store"})]
         ELSE IF Raised(res)
         THEN /\ products' = products
              /\ task' = [task EXCEPT ![j] = Raise(t, res.raised, {})]
         ELSE /\ products' = res.rows
              /\ task' = [task EXCEPT ![j] = [FoldUpsert(t, res) EXCEPT !.pc = next]]

\* lines 173-177
ChunkFlush(j) ==
    /\ Running(j, "L174")
    /\ Flush(j, AfterChunkCheck(task[j]))
    /\ UNCHANGED <<new_ids, responses, import_jobs, uploads, progress, webhook_queue>>

\* lines 181-186 and 209-213: the running counters copied to the job object
WithCounters(orm, t) ==
    [orm EXCEPT !.processed_rows = t.processed_rows,
                !.success_count = t.success_count,
                !.error_count = t.error_count,
                !.created_count = t.created_count,
                !.updated_count = t.updated_count]

\* lines 180-187
PersistProgress(j) ==
    /\ Running(j, "L181")
    /\ LET orm == [WithCounters(task[j].orm, task[j]) EXCEPT !.status = "importing"]
           t == [task[j] EXCEPT !.orm = orm]
       IN \E ok \in BOOLEAN :
            IF ok /\ RowPresent(j)
            THEN /\ import_jobs' = Committed(j, orm)
                 /\ task' = [task EXCEPT ![j] = [t EXCEPT !.pc = "L189"]]
            ELSE /\ import_jobs' = import_jobs
                 /\ task' = [task EXCEPT ![j] = Raise(t, CommitError(j), {"store"})]
    /\ UNCHANGED <<new_ids, responses, uploads, progress, products, webhook_queue>>

\* the dict of lines 189-199, without its message and percentage
ImportingSnapshot(t) ==
    [status |-> "importing", processed_rows |-> t.processed_rows,
     total_rows |-> t.total_rows, success_count |-> t.success_count,
     error_count |-> t.error_count, created_count |-> t.created_count,
     updated_count |-> t.updated_count]

\* lines 189-199; processed_rows / total_rows raises when total_rows is 0
PublishProgress(j) ==
    /\ Running(j, "L189")
    /\ IF task[j].total_rows = 0
       THEN /\ task' = [task EXCEPT ![j] = Raise(@, "ZeroDivisionError", {})]
            /\ progress' = progress
       ELSE Publish(j, ImportingSnapshot(task[j]), "L155")
    /\ UNCHANGED <<new_ids, responses, import_jobs, uploads, products, webhook_queue>>

\* lines 202-205
FinalFlush(j) ==
    /\ Running(j, "L202")
    /\ IF task[j].batch # <<>>
       THEN Flush(j, "L208")
       ELSE /\ task' = [task EXCEPT ![j] = [@ EXCEPT !.pc = "L208"]]
            /\ products' = products
    /\ UNCHANGED <<new_ids, responses, import_jobs, uploads, progress, webhook_queue>>

\* CompletedJob without the copy of the running counters (lines 209-213)
CompletedJobWithoutCounters(orm, t) ==
    [orm EXCEPT !.status = "completed",
                !.error_details = t.error_details,
                !.completed_at = "utcnow"]

\* lines 208-215: the job object of a finished import
CompletedJob(orm, t) ==
    [WithCounters(orm, t) EXCEPT !.status = "completed",
                                 !.error_details = t.error_details,
                                 !.completed_at = "utcnow"]

\* the completed status left uncommitted before the snapshot is published
MarkCompletedWithoutCommit(j) ==
    /\ Running(j, "L208")
    /\ LET orm == CompletedJob(task[j].orm, task[j])
       IN task' = [task EXCEPT ![j] = [@ EXCEPT !.orm = orm, !.pc = "L219"]]
    /\ UNCHANGED <<new_ids, responses, import_jobs, uploads, progress, products, webhook_queue>>

\* lines 208-216
MarkCompleted(j) ==
    /\ Running(j, "L208")
    /\ LET orm == CompletedJob(task[j].orm, task[j])
           t == [task[j] EXCEPT !.orm = orm]
       IN \E ok \in BOOLEAN :
            IF ok /\ RowPresent(j)
            THEN /\ import_jobs' = Committed(j, orm)
                 /\ task' = [task EXCEPT ![j] = [t EXCEPT !.pc = "L219"]]
            ELSE /\ import_jobs' = import_jobs
                 /\ task' = [task EXCEPT ![j] = Raise(t, CommitError(j), {"store"})]
    /\ UNCHANGED <<new_ids, responses, uploads, progress, products, webhook_queue>>

\* the dict of lines 219-229
CompletedSnapshot(t) ==
    [status |-> "completed", processed_rows |-> t.processed_rows,
     total_rows |-> t.total_rows, success_count |-> t.success_count,
     error_count |-> t.error_count, created_count |-> t.created_count,
     updated_count |-> t.updated_count, progress_percentage |-> 100]

\* lines 219-229
PublishCompleted(j) ==
    /\ Running(j, "L219")
    /\ Publish(j, CompletedSnapshot(task[j]), "L233")
    /\ UNCHANGED <<new_ids, responses, import_jobs, uploads, products, webhook_queue>>

\* the trigger_webhooks message of lines 233-240
CompletedEvent(j, t) ==
    [event_type |-> "import.completed",
     payload |-> [job_id |-> j, total_rows |-> t.total_rows,
                  success_count |-> t.success_count, error_count |-> t.error_count,
                  created_count |-> t.created_count, updated_count |-> t.updated_count]]

\* lines 232-240: trigger_webhooks.delay(...) reaches the broker or raises
EmitCompleted(j) ==
    /\ Running(j, "L233")
    /\ \E ok \in BOOLEAN :
         IF ok
         THEN /\ webhook_queue' = Append(webhook_queue, CompletedEvent(j, task[j]))
              /\ task' = [task EXCEPT ![j] = [@ EXCEPT !.pc = "L243"]]
         ELSE /\ webhook_queue' = webhook_queue
              /\ task' = [task EXCEPT ![j] = Raise(@, "KombuOperationalError", {"emit"})]
    /\ UNCHANGED <<new_ids, responses, import_jobs, uploads, progress, products>>

\* lines 243-253
RemoveFile(j) ==
    /\ Running(j, "L243")
    /\ \E ok \in BOOLEAN :
         IF ok \/ j \notin DOMAIN uploads
         THEN /\ uploads' = DelKey(uploads, j)
              /\ task' = [task EXCEPT ![j] =
                     [@ EXCEPT !.pc = "returned", !.result = "completed"]]
         ELSE /\ uploads' = uploads
              /\ task' = [task EXCEPT ![j] = Raise(@, "OSError", {"fs"})]
    /\ UNCHANGED <<new_ids, responses, import_jobs, progress, products, webhook_queue>>

\* FailedJob with the message appended to the stored row errors
FailedJobKeepsRowErrors(orm, exc) ==
    [orm EXCEPT !.status = "failed",
                !.error_details = Append(@, [message |-> exc]),
                !.completed_at = "utcnow"]

\* lines 257-259: the job object the handler commits
FailedJob(orm, exc) ==
    [orm EXCEPT !.status = "failed",
                !.error_details = <<[message |-> exc]>>,
                !.completed_at = "utcnow"]

\* ExceptMark in a transaction that spans the whole run: the failure rolls
\* the flushed batches back
ExceptMarkRollsBack(j) ==
    /\ Running(j, "L257")
    /\ LET orm == FailedJob(task[j].orm, task[j].exc)
           t == [task[j] EXCEPT !.orm = orm]
       IN \E ok \in BOOLEAN :
            IF ok /\ RowPresent(j)
            THEN /\ import_jobs' = Committed(j, orm)
                 /\ task' = [task EXCEPT ![j] = [t EXCEPT !.pc = "L262"]]
            ELSE /\ import_jobs' = import_jobs
                 /\ task' = [task EXCEPT ![j] =
                        RaiseInHandler(t, CommitError(j), {"store"})]
    /\ products' = task[j].store_at_start
    /\ UNCHANGED <<new_ids, responses, uploads, progress, webhook_queue>>

\* lines 255-260
ExceptMark(j) ==
    /\ Running(j, "L257")
    /\ LET orm == FailedJob(task[j].orm, task[j].exc)
           t == [task[j] EXCEPT !.orm = orm]
       IN \E ok \in BOOLEAN :
            IF ok /\ RowPresent(j)
            THEN /\ import_jobs' = Committed(j, orm)
                 /\ task' = [task EXCEPT ![j] = [t EXCEPT !.pc = "L262"]]
            ELSE /\ import_jobs' = import_jobs
                 /\ task' = [task EXCEPT ![j] =
                        RaiseInHandler(t, CommitError(j), {"store"})]
    /\ UNCHANGED <<new_ids, responses, uploads, progress, products, webhook_queue>>

\* the dict of lines 262-270, read back from the committed job object
FailedSnapshot(orm, exc) ==
    [status |-> "failed", error |-> exc, processed_rows |-> orm.processed_rows,
     total_rows |-> orm.total_rows, success_count |-> orm.success_count,
     error_count |-> orm.error_count]

\* lines 262-270
ExceptPublish(j) ==
    /\ Running(j, "L262")
    /\ \E ok \in BOOLEAN :
         IF ok
         THEN /\ progress' = SetKey(progress, j, FailedSnapshot(task[j].orm, task[j].exc))
              /\ task' = [task EXCEPT ![j] = [@ EXCEPT !.pc = "L273"]]
         ELSE /\ progress' = progress
              /\ task' = [task EXCEPT ![j] =
                     RaiseInHandler(@, "ConnectionError", {"fast_store"})]
    /\ UNCHANGED <<new_ids, responses, import_jobs, uploads, products, webhook_queue>>

\* lines 272-276
ExceptCleanup(j) ==
    /\ Running(j, "L273")
    /\ \E ok \in BOOLEAN :
         IF ok \/ j \notin DOMAIN uploads
         THEN /\ uploads' = DelKey(uploads, j)
              /\ task' = [task EXCEPT ![j] =
                     [@ EXCEPT !.pc = "raised", !.handler_done = TRUE]]
         ELSE /\ uploads' = uploads
              /\ task' = [task EXCEPT ![j] = RaiseInHandler(@, "OSError", {"fs"})]
    /\ UNCHANGED <<new_ids, responses, import_jobs, progress, products, webhook_queue>>

Next ==
    \/ Upload /\ UNCHANGED outside_import
    \/ \E j \in DOMAIN task : TaskLoad(j) /\ UNCHANGED outside_import
    \/ \E j \in DOMAIN task : SetParsing(j) /\ UNCHANGED outside_import
    \/ \E j \in DOMAIN task : PublishParsing(j) /\ UNCHANGED outside_import
    \/ \E j \in DOMAIN task : CountRows(j) /\ UNCHANGED outside_import
    \/ \E j \in DOMAIN task : PublishValidating(j) /\ UNCHANGED outside_import
    \/ \E j \in DOMAIN task : OpenFile(j) /\ UNCHANGED outside_import
    \/ \E j \in DOMAIN task : RowStep(j) /\ UNCHANGED outside_import
    \/ \E j \in DOMAIN task : ChunkFlush(j) /\ UNCHANGED outside_import
    \/ \E j \in DOMAIN task : PersistProgress(j) /\ UNCHANGED outside_import
    \/ \E j \in DOMAIN task : PublishProgress(j) /\ UNCHANGED outside_import
    \/ \E j \in DOMAIN task : FinalFlush(j) /\ UNCHANGED outside_import
    \/ \E j \in DOMAIN task : MarkCompleted(j) /\ UNCHANGED outside_import
    \/ \E j \in DOMAIN task : PublishCompleted(j) /\ UNCHANGED outside_import
    \/ \E j \in DOMAIN task : EmitCompleted(j) /\ UNCHANGED outside_import
    \/ \E j \in DOMAIN task : RemoveFile(j) /\ UNCHANGED outside_import
    \/ \E j \in DOMAIN task : ExceptMark(j) /\ UNCHANGED outside_import
    \/ \E j \in DOMAIN task : ExceptPublish(j) /\ UNCHANGED outside_import
    \/ \E j \in DOMAIN task : ExceptCleanup(j) /\ UNCHANGED outside_import

Spec == Init /\ [][Next]_vars

\* ------------------------------------------- product API and batch upserts
\* Requests to the product API and calls of upsert_products by running
\* imports, interleaved.  Each one is a transaction on the products table; a
\* transaction that reads before it writes takes two steps, so that another
\* one can commit in between.  Every transaction gets the next value of the
\* store's clock as its now().
MaxStoreOps == 2

LowerChar(c) ==
    CASE c = "A" -> "a"
      [] c = "B" -> "b"
      [] c = "C" -> "c"
      [] c = "X" -> "x"
      [] c = "Y" -> "y"
      [] OTHER -> c

\* str.lower() and SQL lower()
Lower(s) == [i \in 1..Len(s) |-> LowerChar(s[i])]

\* ProductCreate: the request body after sku_must_be_valid
ProductCreate(body) == [body EXCEPT !.sku = Upper(Strip(@))]

CreateBodies ==
    {[sku |-> <<"a">>, name |-> <<"y">>, description |-> None, price |-> NoPrice,
      quantity |-> 1, is_active |-> TRUE],
     [sku |-> <<"b", " ">>, name |-> <<"y">>, description |-> <<"x">>,
      price |-> ParseDecimal(<<"5">>), quantity |-> 0, is_active |-> TRUE]}

\* ProductUpdate bodies: the fields a PUT sets (exclude_unset)
UpdateBodies ==
    {[name |-> <<"y", "y">>], [quantity |-> 2, is_active |-> FALSE]}

\* the batches running imports hand to upsert_products: valid parsed rows
ParsedData(row) == parse_csv_row(row, 2).data

StoreBatches ==
    {b \in {<<ParsedData(RowA)>>, <<ParsedData(RowA2)>>, <<ParsedData(RowB)>>,
            <<ParsedData(RowA), ParsedData(RowB)>>,
            <<ParsedData(RowB), ParsedData(RowA2)>>,
            <<ParsedData(RowA), ParsedData(RowA2)>>} : Len(b) <= CHUNK_SIZE}

ImportJobs == {"j1", "j2"}

StoreInit ==
    /\ new_ids = {}
    /\ import_jobs = <<>>
    /\ uploads = <<>>
    /\ progress = <<>>
    /\ products \in {{}, {ExistingProduct}}
    /\ task = <<>>
    /\ webhook_queue = <<>>
    /\ responses = <<>>
    /\ clock = 1
    /\ store_ops = <<>>
    /\ webhooks = <<>>
    /\ deliveries = <<>>
    /\ fanouts = <<>>
    /\ validated = <<>>
    /\ requests = <<>>

NextOp == Cardinality(DOMAIN store_ops) + 1

\* a new transaction: recorded under the next id, the clock moves on
Begin(op) ==
    /\ NextOp <= MaxStoreOps
    /\ store_ops' = SetKey(store_ops, NextOp, op)
    /\ clock' = clock + 1

\* Product.to_dict(): a price that is absent or zero is reported as None
to_dict(r) ==
    [r EXCEPT !.price = IF r.price.ok /\ r.price.coef # 0 THEN r.price ELSE NoPrice]

\* trigger_webhooks.delay(event, payload) inside try/except: the message
\* reaches the broker, or the failure is swallowed
TriggerBestEffort(event_type, payload) ==
    \E ok \in BOOLEAN :
        webhook_queue' = IF ok
                         THEN Append(webhook_queue,
                                     [event_type |-> event_type, payload |-> payload])
                         ELSE webhook_queue

\* the unique constraint on products.sku
UniqueViolationNever(rows, sku) == FALSE

UniqueViolation(rows, sku) == \E r \in rows : r.sku = sku

\* CreateCheck without the lookup
CreateCheckSkipsLookup(body) ==
    LET data == ProductCreate(body)
    IN /\ Begin([kind |-> "create_product", body |-> body, data |-> data,
                 now |-> clock, pc |-> "L83", code |-> 0])
       /\ UNCHANGED <<products, webhook_queue>>

\* create_product, lines 73-81: the case-insensitive lookup, and the 400
CreateCheck(body) ==
    LET data == ProductCreate(body)
        existing == \E r \in products : Lower(r.sku) = Lower(data.sku)
    IN /\ Begin([kind |-> "create_product", body |-> body, data |-> data,
                 now |-> clock, pc |-> IF existing THEN "done" ELSE "L83",
                 code |-> IF existing THEN 400 ELSE 0])
       /\ UNCHANGED <<products, webhook_queue>>

\* the Product of lines 83-90 with the column defaults
NewProduct(data, rows, now) ==
    [id |-> NextProductId(rows), sku |-> Upper(data.sku), name |-> data.name,
     description |-> data.description, price |-> data.price,
     quantity |-> data.quantity, is_active |-> data.is_active,
     created_at |-> now, updated_at |-> now]

\* create_product, lines 83-103: the INSERT and its commit, then the event
CreateCommit(o) ==
    /\ o \in DOMAIN store_ops
    /\ store_ops[o].kind = "create_product" /\ store_ops[o].pc = "L83"
    /\ LET op == store_ops[o]
           row == NewProduct(op.data, products, op.now)
       IN IF UniqueViolation(products, row.sku)
          THEN /\ store_ops' = [store_ops EXCEPT ![o] = [op EXCEPT !.pc = "done", !.code = 500]]
               /\ UNCHANGED <<products, webhook_queue>>
          ELSE /\ products' = products \cup {row}
               /\ TriggerBestEffort("product.created", to_dict(row))
               /\ store_ops' = [store_ops EXCEPT ![o] = [op EXCEPT !.pc = "done", !.code = 201]]
    /\ clock' = clock

\* lines 123-125: setattr for every field the body sets; the UPDATE (and its
\* onupdate timestamp) is only issued when a column changes
ApplyUpdate(r, body, now) ==
    LET set == [f \in DOMAIN r |-> IF f \in DOMAIN body THEN body[f] ELSE r[f]]
    IN IF set = r THEN r ELSE [set EXCEPT !.updated_at = now]

\* update_product, lines 116-137
update_product(product_id, body) ==
    IF \E r \in products : r.id = product_id
    THEN LET r == CHOOSE q \in products : q.id = product_id
             new == ApplyUpdate(r, body, clock)
         IN /\ Begin([kind |-> "update_product", id |-> product_id, body |-> body,
                      now |-> clock, pc |-> "done", code |-> 200])
            /\ products' = (products \ {r}) \cup {new}
            /\ TriggerBestEffort("product.updated", to_dict(new))
    ELSE /\ Begin([kind |-> "update_product", id |-> product_id, body |-> body,
                   now |-> clock, pc |-> "done", code |-> 404])
         /\ UNCHANGED <<products, webhook_queue>>

\* delete_product, lines 140-158
delete_product(product_id) ==
    IF \E r \in products : r.id = product_id
    THEN LET r == CHOOSE q \in products : q.id = product_id
         IN /\ Begin([kind |-> "delete_product", id |-> product_id,
                      now |-> clock, pc |-> "done", code |-> 200])
            /\ products' = products \ {r}
            /\ TriggerBestEffort("product.deleted", to_dict(r))
    ELSE /\ Begin([kind |-> "delete_product", id |-> product_id,
                   now |-> clock, pc |-> "done", code |-> 404])
         /\ UNCHANGED <<products, webhook_queue>>

\* the ids a request can name: those in the table, and one that is not
RequestIds == {r.id : r \in products} \cup {NextProductId(products)}

\* an import runs its batches one after the other
Upserting(job) ==
    \E o \in DOMAIN store_ops :
        /\ store_ops[o].kind = "upsert" /\ store_ops[o].job = job
        /\ store_ops[o].pc # "done"

\* upsert_products, lines 281-293: the query for the SKUs that exist
UpsertQuery(job, batch) ==
    /\ ~Upserting(job)
    /\ Begin([kind |-> "upsert", job |-> job, batch |-> batch,
              existing |-> existing_skus(products, batch), now |-> clock,
              pc |-> "L295", created |-> 0, updated |-> 0, raised |-> "none"])
    /\ UNCHANGED <<products, webhook_queue>>

\* upsert_products, lines 295-320: the counts, the statement and its commit
UpsertExecute(o) ==
    /\ o \in DOMAIN store_ops
    /\ store_ops[o].kind = "upsert" /\ store_ops[o].pc = "L295"
    /\ LET op == store_ops[o]
       IN IF AffectsRowTwice(op.batch)
          THEN /\ store_ops' = [store_ops EXCEPT ![o] =
                      [op EXCEPT !.pc = "done", !.raised = "CardinalityViolation"]]
               /\ products' = products
          ELSE /\ store_ops' = [store_ops EXCEPT ![o] =
                      [op EXCEPT !.pc = "done",
                                 !.created = CreatedGiven(op.batch, op.existing),
                                 !.updated = UpdatedGiven(op.batch, op.existing)]]
               /\ products' = UpsertRows(products, op.batch, op.now, clock)
    /\ UNCHANGED <<clock, webhook_queue>>

\* what the product API and the upsert engine never touch
outside_store ==
    <<new_ids, import_jobs, uploads, progress, task, responses, webhooks, deliveries,
      fanouts, validated, requests>>

StoreNext ==
    \/ \E body \in CreateBodies : CreateCheck(body) /\ UNCHANGED outside_store
    \/ \E o \in DOMAIN store_ops : CreateCommit(o) /\ UNCHANGED outside_store
    \/ \E id \in RequestIds, body \in UpdateBodies :
          update_product(id, body) /\ UNCHANGED outside_store
    \/ \E id \in RequestIds : delete_product(id) /\ UNCHANGED outside_store
    \/ \E job \in ImportJobs, batch \in StoreBatches :
          UpsertQuery(job, batch) /\ UNCHANGED outside_store
    \/ \E o \in DOMAIN store_ops : UpsertExecute(o) /\ UNCHANGED outside_store

StoreSpec == StoreInit /\ [][StoreNext]_vars

\* ------------------------------------------- webhook fan-out and dispatcher
\* trigger_webhooks and send_webhook run on the webhooks worker pool, next to
\* the webhook API.  An invocation of send_webhook takes two steps: the lookup
\* that loads the webhook row into its session, and the POST with the commit
\* and the retry decision that follow it; other invocations and API requests
\* can commit in between.
MaxDeliveries == 2

\* the invocations of send_webhook the worker pool gets to start
MaxRuns == 5

\* @celery_app.task(bind=True, max_retries=3, ...)
max_retries == 3

\* the 60 of countdown=60 * (self.request.retries + 1)
RetryDelay == 60

NoSecret == None

Webhook(event_type, is_enabled, secret) ==
    [url |-> "http://hook", event_type |-> event_type, is_enabled |-> is_enabled,
     secret |-> secret, last_triggered_at |-> "NULL", last_response_code |-> 0,
     last_response_time_ms |-> "NULL", failure_count |-> 0]

\* the webhooks registered before the first event (0 stands for a NULL
\* last_response_code)
HookTables ==
    {<<Webhook("import.completed", TRUE, <<"x">>),
       Webhook("product.created", TRUE, NoSecret)>>,
     <<Webhook("import.completed", TRUE, <<>>),
       Webhook("import.completed", FALSE, <<"x">>)>>}

HookInit ==
    /\ new_ids = {}
    /\ import_jobs = <<>>
    /\ uploads = <<>>
    /\ progress = <<>>
    /\ products = {}
    /\ task = <<>>
    /\ webhook_queue = <<>>
    /\ responses = <<>>
    /\ clock = 0
    /\ store_ops = <<>>
    /\ webhooks \in HookTables
    /\ deliveries = <<>>
    /\ fanouts = <<>>
    /\ validated = <<>>
    /\ requests = <<>>

\* WebhookUpdate bodies: the fields a PUT sets (exclude_unset)
HookUpdateBodies == {[is_enabled |-> FALSE], [is_enabled |-> TRUE]}

\* update_webhook, lines 69-84
update_webhook(webhook_id, body) ==
    /\ webhook_id \in DOMAIN webhooks
    /\ webhooks' = [webhooks EXCEPT ![webhook_id] =
          [f \in DOMAIN @ |-> IF f \in DOMAIN body THEN body[f] ELSE @[f]]]
    /\ UNCHANGED <<deliveries, webhook_queue, fanouts>>

\* delete_webhook, lines 87-97
delete_webhook(webhook_id) ==
    /\ webhook_id \in DOMAIN webhooks
    /\ webhooks' = DelKey(webhooks, webhook_id)
    /\ UNCHANGED <<deliveries, webhook_queue, fanouts>>

\* the events a product mutation or a finished import hands to the fan-out
HookEvents ==
    {[event_type |-> "import.completed", payload |-> [job_id |-> "j1"]],
     [event_type |-> "product.created", payload |-> [sku |-> <<"A">>]]}

\* the webhooks registered for an event type, enabled or not
Subscribed(event_type) ==
    {w \in DOMAIN webhooks : webhooks[w].event_type = event_type}

\* trigger_webhooks.delay(event_type, payload), by a caller of the fan-out; the
\* deliveries it can lead to stay within MaxDeliveries
TriggerEvent(e) ==
    /\ webhook_queue = <<>>
    /\ Len(fanouts) < MaxDeliveries
    /\ Subscribed(e.event_type) # {}
    /\ Cardinality(DOMAIN deliveries) + Cardinality(Subscribed(e.event_type))
          <= MaxDeliveries
    /\ webhook_queue' = Append(webhook_queue, e)
    /\ UNCHANGED <<webhooks, deliveries, fanouts>>

\* what client.post can end in: a response with its status code, or one of
\* the two exceptions the task catches
StatusCodes == {200, 399, 400, 499, 500, 503}

Outcomes ==
    [kind : {"response"}, status_code : StatusCodes]
    \cup [kind : {"TimeoutException", "RequestError"}, status_code : {0}]

NoOutcome == [kind |-> "none", status_code |-> 0]

IsResponse(outcome) == outcome.kind = "response"

\* a send_webhook message as delay() queues it; posts, runs, countdowns,
\* outcome and same_answer (every POST so far ended like the last one) record
\* what its invocations did
NewDelivery(webhook_id, e) ==
    [webhook_id |-> webhook_id, event_type |-> e.event_type, payload |-> e.payload,
     retries |-> 0, state |-> "queued", result |-> "none", orm |-> <<>>,
     request |-> <<>>, posts |-> 0, runs |-> 0, countdowns |-> <<>>,
     outcome |-> NoOutcome, same_answer |-> TRUE, retry_requested |-> FALSE]

\* Selected without the filter on is_enabled
SelectedAlsoDisabled(event_type) ==
    {w \in DOMAIN webhooks : webhooks[w].event_type = event_type}

\* the webhooks trigger_webhooks selects, lines 123-126
Selected(event_type) ==
    {w \in DOMAIN webhooks :
        webhooks[w].event_type = event_type /\ webhooks[w].is_enabled}

RECURSIVE Enqueue(_, _, _)
Enqueue(queue, ids, e) ==
    IF ids = {} THEN queue
    ELSE LET w == CHOOSE x \in ids : \A y \in ids : x <= y
         IN Enqueue(SetKey(queue, Cardinality(DOMAIN queue) + 1, NewDelivery(w, e)),
                    ids \ {w}, e)

\* triggered_count after the loop of lines 128-131 over the webhooks ids
RECURSIVE TriggeredCount(_)
TriggeredCount(ids) ==
    IF ids = {} THEN 0
    ELSE 1 + TriggeredCount(ids \ {CHOOSE x \in ids : \A y \in ids : x <= y})

\* trigger_webhooks, lines 117-133, for the message at the head of its queue
trigger_webhooks ==
    /\ webhook_queue # <<>>
    /\ LET e == Head(webhook_queue)
           ids == Selected(e.event_type)
       IN /\ deliveries' = Enqueue(deliveries, ids, e)
          /\ fanouts' = Append(fanouts,
                [event_type |-> e.event_type,
                 triggered_webhooks |-> TriggeredCount(ids)])
    /\ webhook_queue' = Tail(webhook_queue)
    /\ UNCHANGED webhooks

\* json.dumps(obj)
Json(obj) == [json |-> obj]

\* hmac.new(secret.encode("utf-8"), payload.encode("utf-8"), sha256).hexdigest()
HmacSha256Hex(key, msg) == [hmac_sha256_hex |-> [key |-> key, msg |-> msg]]

\* generate_signature(payload, secret), lines 16-22
generate_signature(payload, secret) == HmacSha256Hex(secret, payload)

\* `if webhook.secret:`: neither None nor the empty string
Truthy(secret) == secret # None /\ secret # <<>>

\* lines 42-47
PayloadJson(event_type, payload) ==
    Json([event |-> event_type, timestamp |-> "utcnow()", data |-> payload])

\* Headers that signs for every webhook, with or without a secret
HeadersAlwaysSigned(w, event_type, payload_json) ==
    LET base == [h \in {"Content-Type", "X-Webhook-Event", "X-Webhook-Timestamp"} |->
                    <<IF h = "Content-Type" THEN "application/json"
                      ELSE IF h = "X-Webhook-Event" THEN event_type
                      ELSE "utcnow()">>]
    IN SetKey(base, "X-Webhook-Signature",
              <<"sha256=", generate_signature(payload_json, w.secret)>>)

\* lines 50-59
Headers(w, event_type, payload_json) ==
    LET base == [h \in {"Content-Type", "X-Webhook-Event", "X-Webhook-Timestamp"} |->
                    <<IF h = "Content-Type" THEN "application/json"
                      ELSE IF h = "X-Webhook-Event" THEN event_type
                      ELSE "utcnow()">>]
    IN IF Truthy(w.secret)
       THEN SetKey(base, "X-Webhook-Signature",
                   <<"sha256=", generate_signature(payload_json, w.secret)>>)
       ELSE base

\* the early returns of lines 33-39, for every webhook also a disabled one
EarlyReturnIgnoresDisabled(webhook_id) ==
    IF webhook_id \notin DOMAIN webhooks THEN "not_found" ELSE "none"

\* the early returns of lines 33-39
EarlyReturn(webhook_id) ==
    IF webhook_id \notin DOMAIN webhooks THEN "not_found"
    ELSE IF ~webhooks[webhook_id].is_enabled THEN "skipped"
    ELSE "none"

RECURSIVE RunsOf(_, _)
RunsOf(queue, n) == IF n = 0 THEN 0 ELSE queue[n].runs + RunsOf(queue, n - 1)

\* the invocations started so far
Runs == RunsOf(deliveries, Cardinality(DOMAIN deliveries))

\* SendLoad that waits while another delivery is waiting for a retry
SendLoadAfterRetries(d) ==
    /\ \A x \in DOMAIN deliveries \ {d} :
          ~(deliveries[x].state = "queued" /\ deliveries[x].retries > 0)
    /\ d \in DOMAIN deliveries /\ deliveries[d].state = "queued"
    /\ Runs < MaxRuns
    /\ LET m == deliveries[d]
           early == EarlyReturn(m.webhook_id)
       IN IF early # "none"
          THEN deliveries' = [deliveries EXCEPT ![d] =
                   [m EXCEPT !.state = "done", !.result = early, !.runs = @ + 1,
                             !.retry_requested = FALSE, !.outcome = NoOutcome]]
          ELSE LET w == webhooks[m.webhook_id]
                   payload_json == PayloadJson(m.event_type, m.payload)
               IN deliveries' = [deliveries EXCEPT ![d] =
                      [m EXCEPT !.state = "running", !.orm = w, !.runs = @ + 1,
                                !.request = [url |-> w.url, content |-> payload_json,
                                             headers |-> Headers(w, m.event_type,
                                                                 payload_json)]]]
    /\ UNCHANGED <<webhooks, webhook_queue, fanouts>>

\* send_webhook, lines 32-59: the lookup, and the body and headers to send
SendLoad(d) ==
    /\ d \in DOMAIN deliveries /\ deliveries[d].state = "queued"
    /\ Runs < MaxRuns
    /\ LET m == deliveries[d]
           early == EarlyReturn(m.webhook_id)
       IN IF early # "none"
          THEN deliveries' = [deliveries EXCEPT ![d] =
                   [m EXCEPT !.state = "done", !.result = early, !.runs = @ + 1,
                             !.retry_requested = FALSE, !.outcome = NoOutcome]]
          ELSE LET w == webhooks[m.webhook_id]
                   payload_json == PayloadJson(m.event_type, m.payload)
               IN deliveries' = [deliveries EXCEPT ![d] =
                      [m EXCEPT !.state = "running", !.orm = w, !.runs = @ + 1,
                                !.request = [url |-> w.url, content |-> payload_json,
                                             headers |-> Headers(w, m.event_type,
                                                                 payload_json)]]]
    /\ UNCHANGED <<webhooks, webhook_queue, fanouts>>

\* OnResponse that resets the failure count below 500
OnResponseResetsBelow500(orm, code) ==
    [orm EXCEPT !.last_triggered_at = "utcnow()",
                !.last_response_code = code,
                !.last_response_time_ms = "measured",
                !.failure_count = IF code >= 500 THEN @ + 1 ELSE 0]

\* lines 74-79 and 89: the loaded row after a response
OnResponse(orm, code) ==
    [orm EXCEPT !.last_triggered_at = "utcnow()",
                !.last_response_code = code,
                !.last_response_time_ms = "measured",
                !.failure_count = IF code >= 400 THEN @ + 1 ELSE 0]

\* lines 99 and 108: the loaded row after a timeout or a request error
OnTransportError(orm) == [orm EXCEPT !.failure_count = @ + 1]

\* db.commit(): the UPDATE sets the attributes whose value differs from the
\* loaded one (a timestamp taken after a response always differs)
CommitRow(stored, loaded, new, stamped) ==
    [f \in DOMAIN stored |->
        IF (f = "last_triggered_at" /\ stamped) \/ new[f] # loaded[f] THEN new[f]
        ELSE stored[f]]

\* RetryWanted that also retries client errors
RetryWantedFrom400(outcome) == IsResponse(outcome) => outcome.status_code >= 400

\* lines 83, 102 and 111: the outcomes after which self.retry is called
RetryWanted(outcome) == IsResponse(outcome) => outcome.status_code >= 500

\* Countdown without the backoff
CountdownFlat(retries) == RetryDelay

\* countdown=60 * (self.request.retries + 1)
Countdown(retries) == RetryDelay * (retries + 1)

\* CanRetry that gives up one retry earlier
CanRetryThreeAttempts(retries) == retries + 1 < max_retries

\* Task.retry re-queues the message unless request.retries has reached
\* max_retries; then it raises the exception it was given
CanRetry(retries) == retries < max_retries

\* send_webhook, lines 61-114: the POST, the commit of the delivery stats, and
\* the return, the retry or the exception that ends the invocation
SendPost(d, outcome) ==
    /\ d \in DOMAIN deliveries /\ deliveries[d].state = "running"
    /\ LET m == deliveries[d]
           new == IF IsResponse(outcome) THEN OnResponse(m.orm, outcome.status_code)
                  ELSE OnTransportError(m.orm)
           sent == [m EXCEPT !.posts = @ + 1, !.outcome = outcome, !.orm = <<>>,
                             !.same_answer = @ /\ (m.posts = 0 \/ m.outcome = outcome)]
       IN IF m.webhook_id \notin DOMAIN webhooks
          THEN \* the UPDATE matches no row: StaleDataError leaves the task
               /\ webhooks' = webhooks
               /\ deliveries' = [deliveries EXCEPT ![d] =
                      [sent EXCEPT !.state = "done", !.result = "StaleDataError",
                                   !.retry_requested = FALSE]]
          ELSE /\ webhooks' = [webhooks EXCEPT ![m.webhook_id] = CommitRow(@, m.orm, new, IsResponse(outcome))]
               /\ deliveries' = [deliveries EXCEPT ![d] =
                      IF ~RetryWanted(outcome)
                      THEN [sent EXCEPT !.state = "done",
                                        !.result = IF outcome.status_code < 400 THEN "success"
                                                   ELSE "failure",
                                        !.retry_requested = FALSE]
                      ELSE IF CanRetry(m.retries)
                      THEN [sent EXCEPT !.state = "queued", !.retries = @ + 1,
                                        !.countdowns = Append(@, Countdown(m.retries)),
                                        !.retry_requested = TRUE]
                      ELSE [sent EXCEPT !.state = "done", !.result = "retries_exhausted",
                                        !.retry_requested = TRUE]]
    /\ UNCHANGED <<webhook_queue, fanouts>>

\* what fan-out, dispatcher and webhook API never touch
outside_hooks ==
    <<new_ids, import_jobs, uploads, progress, products, task, responses, clock,
      store_ops, validated, requests>>

HookNext ==
    \/ \E e \in HookEvents : TriggerEvent(e) /\ UNCHANGED outside_hooks
    \/ trigger_webhooks /\ UNCHANGED outside_hooks
    \/ \E d \in DOMAIN deliveries : SendLoad(d) /\ UNCHANGED outside_hooks
    \/ \E d \in DOMAIN deliveries, outcome \in Outcomes :
          SendPost(d, outcome) /\ UNCHANGED outside_hooks
    \/ \E w \in DOMAIN webhooks, body \in HookUpdateBodies :
          update_webhook(w, body) /\ UNCHANGED outside_hooks
    \/ \E w \in DOMAIN webhooks : delete_webhook(w) /\ UNCHANGED outside_hooks

HookSpec == HookInit /\ [][HookNext]_vars

\* ------------------------------------------------ the Row Validator alone
\* parse_csv_row applied to one raw row as csv.DictReader hands it over: a
\* string for every field the record has, None for the fields a short record
\* lacks, and no key at all for a column the header does not name.
SkuTexts == {<<>>, <<" ">>, <<"a">>, <<" ", "b", " ">>}

NameTexts == {<<>>, <<"x">>}

PriceTexts ==
    {<<>>, <<" ">>, <<"a", "b", "c">>, <<" ", "a", "b", "c">>, <<"-", "5">>,
     <<"-", "0">>, <<"0">>, <<"1", ".", "5">>, <<"+", "2">>, <<"1", ".", "2", ".", "5">>}

QuantityTexts == {<<>>, <<"2">>, <<"-", "1">>, <<"x">>}

\* full records, records that stop after the name or after the price, and
\* records under a header without the price and quantity columns
RawRows ==
    {[sku |-> k, name |-> n, description |-> <<>>, price |-> p, quantity |-> q] :
        k \in SkuTexts, n \in NameTexts, p \in PriceTexts, q \in QuantityTexts}
    \cup {[sku |-> k, name |-> n, description |-> None, price |-> None,
           quantity |-> None] : k \in SkuTexts, n \in NameTexts}
    \cup {[sku |-> k, name |-> <<"x">>, description |-> <<>>, price |-> p,
           quantity |-> None] : k \in SkuTexts, p \in PriceTexts}
    \cup {[sku |-> k, name |-> n] : k \in SkuTexts, n \in NameTexts}

ValidatorInit ==
    /\ new_ids = {}
    /\ import_jobs = <<>>
    /\ uploads = <<>>
    /\ progress = <<>>
    /\ products = {}
    /\ task = <<>>
    /\ webhook_queue = <<>>
    /\ responses = <<>>
    /\ clock = 0
    /\ store_ops = <<>>
    /\ webhooks = <<>>
    /\ deliveries = <<>>
    /\ fanouts = <<>>
    /\ validated \in {<<[row |-> row]>> : row \in RawRows}
    /\ requests = <<>>

\* parsed = parse_csv_row(row, row_num), line 156
ValidateRow ==
    /\ Len(validated) = 1
    /\ DOMAIN validated[1] = {"row"}
    /\ validated' = <<[row |-> validated[1].row,
                       parsed |-> parse_csv_row(validated[1].row, 2)]>>

outside_validator ==
    <<new_ids, import_jobs, uploads, progress, products, task, webhook_queue,
      responses, clock, store_ops, webhooks, deliveries, fanouts, requests>>

ValidatorNext == ValidateRow /\ UNCHANGED outside_validator

ValidatorSpec == ValidatorInit /\ [][ValidatorNext]_vars

\* ------------------------------------------------------------ the import API
\* Status queries, progress streams and deletions of one job, interleaved
\* with the job's import task.  Every request is a record of `requests`; its
\* pc is the source line it executes next.  A handler that reads the
\* database and then Redis, or writes one after the other, takes one step for
\* each, so that the task can act in between.
MaxRequests == 2

\* the first polls of a stream are taken one by one
MaxSinglePolls == 1

\* stream_import_progress, line 112: max_retries = 600
max_polls == 600

\* the file uploaded here: two rows that fill a chunk and an invalid third
\* one, after which the progress is updated
JobFiles ==
    {<<HeaderLine, Record(RowA, 1), Record(RowB, 1), Record(RowNoName, 1)>>}

JobUpload ==
    \E j \in new_ids, file \in JobFiles :
        upload_csv(j, <<"p">> \o DotCsv, file, "queued")

NewRequest(kind, j) ==
    [kind |-> kind, job_id |-> j, pc |-> "start", code |-> 0,
     loaded |-> <<>>, body |-> <<>>, last_data |-> <<>>, retry_count |-> 0,
     polls |-> 0, events |-> <<>>, deleted_before |-> FALSE, task_over |-> FALSE]

\* no import task of job j is queued or running
TaskOver(j) == j \in DOMAIN task => task[j].pc \in {"returned", "raised"}

At(r, kind, line) ==
    r \in DOMAIN requests /\ requests[r].kind = kind /\ requests[r].pc = line

\* a DELETE of job j has been answered with 200
Deleted(j) ==
    \E d \in DOMAIN requests :
        /\ requests[d].kind = "delete" /\ requests[d].job_id = j
        /\ requests[d].code = 200

\* the lookup all three handlers start with, and its 404 (lines 79-82,
\* 103-106, 164-167); deleted_before notes that the request came in after a
\* deletion of the job had been answered, task_over that its import task had
\* ended.  One request of a kind is made;
\* the status query alone uses the row it has loaded.
Lookup(kind, j, next) ==
    /\ Len(requests) < MaxRequests
    /\ \A r \in DOMAIN requests : requests[r].kind # kind
    /\ requests' = Append(requests,
          IF j \in DOMAIN import_jobs
          THEN [NewRequest(kind, j) EXCEPT !.pc = next,
                    !.loaded = IF kind = "status" THEN <<import_jobs[j]>> ELSE <<>>,
                    !.deleted_before = Deleted(j),
                    !.task_over = TaskOver(j)]
          ELSE [NewRequest(kind, j) EXCEPT !.pc = "done", !.code = 404,
                    !.deleted_before = Deleted(j),
                    !.task_over = TaskOver(j)])

\* the snapshot of job j in Redis, as a sequence of none or one
Snapshot(j) == IF j \in DOMAIN progress THEN <<progress[j]>> ELSE <<>>

\* lines 88-94 with the status taken from the job row whatever the snapshot
MergedKeepsStatus(job, snap) ==
    [job EXCEPT
        !.processed_rows = Get(snap, "processed_rows", @),
        !.success_count = Get(snap, "success_count", @),
        !.error_count = Get(snap, "error_count", @),
        !.created_count = Get(snap, "created_count", @),
        !.updated_count = Get(snap, "updated_count", @)]

\* get_import_status, lines 88-94: progress.get(field, import_job.field) for
\* the six fields
Merged(job, snap) ==
    [job EXCEPT
        !.processed_rows = Get(snap, "processed_rows", @),
        !.success_count = Get(snap, "success_count", @),
        !.error_count = Get(snap, "error_count", @),
        !.created_count = Get(snap, "created_count", @),
        !.updated_count = Get(snap, "updated_count", @),
        !.status = Get(snap, "status", @)]

\* GET /{job_id}/status, lines 79-82
StatusLookup(j) ==
    /\ Lookup("status", j, "L85")
    /\ UNCHANGED <<new_ids, responses, import_jobs, uploads, progress, products,
                   task, webhook_queue>>

\* lines 85-98: the Redis read, the merge into the session's object, which
\* get_db closes without a commit, and the response (without its id,
\* created_at and progress_percentage); a failing read is a 500
StatusRespond(r) ==
    /\ At(r, "status", "L85")
    /\ \E ok \in BOOLEAN :
         LET q == requests[r]
             snap == Snapshot(q.job_id)
             job == IF snap = <<>> THEN q.loaded[1] ELSE Merged(q.loaded[1], snap[1])
         IN requests' = [requests EXCEPT ![r] =
               IF ok
               THEN [q EXCEPT !.pc = "done", !.code = 200, !.body = <<job>>,
                              !.last_data = snap]
               ELSE [q EXCEPT !.pc = "done", !.code = 500]]
    /\ UNCHANGED <<new_ids, responses, import_jobs, uploads, progress, products,
                   task, webhook_queue>>

\* GET /{job_id}/stream, lines 103-106; the generator starts with the response
StreamLookup(j) ==
    /\ Lookup("stream", j, "L114")
    /\ UNCHANGED <<new_ids, responses, import_jobs, uploads, progress, products,
                   task, webhook_queue>>

Event(name, data) == [event |-> name, data |-> data]

\* the loop without its break on a completed or failed snapshot
PollWithoutBreak(q, ok) ==
    LET snap == Snapshot(q.job_id)
        polled == [q EXCEPT !.polls = @ + 1]
    IN IF ~ok
       THEN [polled EXCEPT !.events = Append(@, Event("error", <<>>)), !.pc = "L135"]
       ELSE IF snap # <<>> /\ snap # q.last_data
       THEN [polled EXCEPT !.events = Append(@, Event("progress", snap)),
                           !.last_data = snap, !.retry_count = @ + 1]
       ELSE [polled EXCEPT !.retry_count = @ + 1]

\* one iteration of the loop of lines 114-133: the read; a new snapshot is
\* sent, and a completed or failed one leaves the loop; otherwise the sleep
\* and the count.  A read that raises sends the error event and leaves.
Poll(q, ok) ==
    LET snap == Snapshot(q.job_id)
        polled == [q EXCEPT !.polls = @ + 1]
    IN IF ~ok
       THEN [polled EXCEPT !.events = Append(@, Event("error", <<>>)), !.pc = "L135"]
       ELSE IF snap # <<>> /\ snap # q.last_data
       THEN LET sent == [polled EXCEPT !.events = Append(@, Event("progress", snap)),
                                       !.last_data = snap]
            IN IF snap[1].status \in {"completed", "failed"}
               THEN [sent EXCEPT !.pc = "L135"]
               ELSE [sent EXCEPT !.retry_count = @ + 1]
       ELSE [polled EXCEPT !.retry_count = @ + 1]

\* line 114: while retry_count < max_retries
LoopTest(q) == IF q.retry_count < max_polls THEN q ELSE [q EXCEPT !.pc = "L135"]

\* an iteration on its own: any that reads a snapshot not sent yet, and the
\* first MaxSinglePolls of those that do not
StreamPoll(r) ==
    /\ At(r, "stream", "L114")
    /\ \/ requests[r].retry_count < MaxSinglePolls
       \/ Snapshot(requests[r].job_id) \notin {<<>>, requests[r].last_data}
    /\ \E ok \in BOOLEAN :
         requests' = [requests EXCEPT ![r] = LoopTest(Poll(requests[r], ok))]
    /\ UNCHANGED <<new_ids, responses, import_jobs, uploads, progress, products,
                   task, webhook_queue>>

\* the iterations that are left, taken at once, when they all read what the
\* stream has sent last (or nothing): each of them only sleeps and counts
StreamIdle(r) ==
    /\ At(r, "stream", "L114")
    /\ Snapshot(requests[r].job_id) \in {<<>>, requests[r].last_data}
    /\ LET left == max_polls - requests[r].retry_count
       IN requests' = [requests EXCEPT ![r] =
             LoopTest([@ EXCEPT !.polls = @ + left, !.retry_count = @ + left])]
    /\ UNCHANGED <<new_ids, responses, import_jobs, uploads, progress, products,
                   task, webhook_queue>>

\* line 135
StreamEnd(r) ==
    /\ At(r, "stream", "L135")
    /\ requests' = [requests EXCEPT ![r] =
          [@ EXCEPT !.events = Append(@, Event("stream_ended", <<>>)),
                    !.pc = "done", !.code = 200]]
    /\ UNCHANGED <<new_ids, responses, import_jobs, uploads, progress, products,
                   task, webhook_queue>>

\* DELETE /{job_id}, lines 164-167
DeleteLookup(j) ==
    /\ Lookup("delete", j, "L170")
    /\ UNCHANGED <<new_ids, responses, import_jobs, uploads, progress, products,
                   task, webhook_queue>>

Fail(q) == [q EXCEPT !.pc = "done", !.code = 500]

\* lines 170-172
DeleteFile(r) ==
    /\ At(r, "delete", "L170")
    /\ \E ok \in BOOLEAN :
         IF ok \/ requests[r].job_id \notin DOMAIN uploads
         THEN /\ uploads' = DelKey(uploads, requests[r].job_id)
              /\ requests' = [requests EXCEPT ![r] = [@ EXCEPT !.pc = "L175"]]
         ELSE /\ uploads' = uploads
              /\ requests' = [requests EXCEPT ![r] = Fail(@)]
    /\ UNCHANGED <<new_ids, responses, import_jobs, progress, products, task,
                   webhook_queue>>

\* line 175
DeleteSnapshot(r) ==
    /\ At(r, "delete", "L175")
    /\ \E ok \in BOOLEAN :
         IF ok
         THEN /\ progress' = DelKey(progress, requests[r].job_id)
              /\ requests' = [requests EXCEPT ![r] = [@ EXCEPT !.pc = "L177"]]
         ELSE /\ progress' = progress
              /\ requests' = [requests EXCEPT ![r] = Fail(@)]
    /\ UNCHANGED <<new_ids, responses, import_jobs, uploads, products, task,
                   webhook_queue>>

\* lines 177-180; a DELETE that matches no row any more only warns
DeleteRow(r) ==
    /\ At(r, "delete", "L177")
    /\ \E ok \in BOOLEAN :
         IF ok
         THEN /\ import_jobs' = DelKey(import_jobs, requests[r].job_id)
              /\ requests' = [requests EXCEPT ![r] = [@ EXCEPT !.pc = "done", !.code = 200]]
         ELSE /\ import_jobs' = import_jobs
              /\ requests' = [requests EXCEPT ![r] = Fail(@)]
    /\ UNCHANGED <<new_ids, responses, uploads, progress, products, task,
                   webhook_queue>>

JobIds == {"j1"}

outside_job == <<clock, store_ops, webhooks, deliveries, fanouts, validated>>

outside_api == <<clock, store_ops, webhooks, deliveries, fanouts, validated, requests>>

TaskStep(j) ==
    \/ TaskLoad(j) \/ SetParsing(j) \/ PublishParsing(j) \/ CountRows(j)
    \/ PublishValidating(j) \/ OpenFile(j) \/ RowStep(j) \/ ChunkFlush(j)
    \/ PersistProgress(j) \/ PublishProgress(j) \/ FinalFlush(j)
    \/ MarkCompleted(j) \/ PublishCompleted(j) \/ EmitCompleted(j)
    \/ RemoveFile(j) \/ ExceptMark(j) \/ ExceptPublish(j) \/ ExceptCleanup(j)

StreamStep(r) == StreamPoll(r) \/ StreamIdle(r) \/ StreamEnd(r)

JobNext ==
    \/ JobUpload /\ UNCHANGED outside_api
    \/ \E j \in DOMAIN task : TaskStep(j) /\ UNCHANGED outside_api
    \/ \E j \in JobIds : StatusLookup(j) /\ UNCHANGED outside_job
    \/ \E r \in DOMAIN requests : StatusRespond(r) /\ UNCHANGED outside_job
    \/ \E j \in JobIds : StreamLookup(j) /\ UNCHANGED outside_job
    \/ \E r \in DOMAIN requests : StreamPoll(r) /\ UNCHANGED outside_job
    \/ \E r \in DOMAIN requests : StreamIdle(r) /\ UNCHANGED outside_job
    \/ \E r \in DOMAIN requests : StreamEnd(r) /\ UNCHANGED outside_job
    \/ \E j \in JobIds : DeleteLookup(j) /\ UNCHANGED outside_job
    \/ \E r \in DOMAIN requests : DeleteFile(r) /\ UNCHANGED outside_job
    \/ \E r \in DOMAIN requests : DeleteSnapshot(r) /\ UNCHANGED outside_job
    \/ \E r \in DOMAIN requests : DeleteRow(r) /\ UNCHANGED outside_job

JobInit == Init /\ products = {}

JobSpec == JobInit /\ [][JobNext]_vars

\* A progress stream next to the import task and a deletion of the job.  The
\* event loop runs every generator that is not finished.
StreamNext ==
    \/ JobUpload /\ UNCHANGED outside_api
    \/ \E j \in DOMAIN task : TaskStep(j) /\ UNCHANGED outside_api
    \/ \E j \in JobIds : StreamLookup(j) /\ UNCHANGED outside_job
    \/ \E r \in DOMAIN requests : StreamPoll(r) /\ UNCHANGED outside_job
    \/ \E r \in DOMAIN requests : StreamIdle(r) /\ UNCHANGED outside_job
    \/ \E r \in DOMAIN requests : StreamEnd(r) /\ UNCHANGED outside_job
    \/ \E j \in JobIds : DeleteLookup(j) /\ UNCHANGED outside_job
    \/ \E r \in DOMAIN requests : DeleteFile(r) /\ UNCHANGED outside_job
    \/ \E r \in DOMAIN requests : DeleteSnapshot(r) /\ UNCHANGED outside_job
    \/ \E r \in DOMAIN requests : DeleteRow(r) /\ UNCHANGED outside_job

StreamSpec ==
    /\ JobInit
    /\ [][StreamNext]_vars
    /\ \A r \in 1..MaxRequests : WF_vars(StreamStep(r) /\ UNCHANGED outside_job)

\* ------------------------------------------------------------------ claims
Terminal == {"completed", "failed"}

StatusRank(s) ==
    CASE s = "pending" -> 0
      [] s = "parsing" -> 1
      [] s = "validating" -> 2
      [] s = "importing" -> 3
      [] OTHER -> 4

\* the task of job j has left import_csv_task, by return or by exception
TaskEnded(j) == j \in DOMAIN task /\ task[j].pc \in {"returned", "raised"}

\* C1: the durable status of a job only moves forward along pending ->
\* parsing -> validating -> importing -> {completed | failed}, and a job that
\* is completed or failed never changes status again.
C1_StatusOnlyForward ==
    [][\A j \in DOMAIN import_jobs \cap DOMAIN import_jobs' :
          /\ StatusRank(import_jobs'[j].status) >= StatusRank(import_jobs[j].status)
          /\ import_jobs[j].status \in Terminal
                => import_jobs'[j].status = import_jobs[j].status]_vars

\* C2: every job whose durable status is completed has success_count +
\* error_count = processed_rows = total_rows and created_count +
\* updated_count = success_count.
C2_CompletedCountersAgree ==
    \A j \in DOMAIN import_jobs :
        import_jobs[j].status = "completed" =>
            /\ import_jobs[j].success_count + import_jobs[j].error_count
                  = import_jobs[j].processed_rows
            /\ import_jobs[j].processed_rows = import_jobs[j].total_rows
            /\ import_jobs[j].created_count + import_jobs[j].updated_count
                  = import_jobs[j].success_count

\* C3: when handing the import.completed event to the fan-out raises, the job
\* is not failed by it: its durable status stays completed, with the final
\* counters.
C3_EmitFailureKeepsCompleted ==
    \A j \in DOMAIN task :
        "emit" \in task[j].faults =>
            /\ j \in DOMAIN import_jobs
            /\ import_jobs[j] = CompletedJob(import_jobs[j], task[j])

\* C4: a progress publish that fails never aborts the import: no task enters
\* its failure handler because update_progress raised, and no job is recorded
\* as failed with the fast store's error as its diagnostic.
C4_PublishFailureDoesNotAbort ==
    \A j \in DOMAIN task :
        /\ ~(task[j].pc = "L257" /\ task[j].exc = "ConnectionError")
        /\ j \in DOMAIN import_jobs /\ import_jobs[j].status = "failed"
              => import_jobs[j].error_details # <<[message |-> "ConnectionError"]>>

\* C5: a row that fails validation never aborts the job: when no store, file
\* system, fast channel or broker failure occurs, the task ends with the job
\* completed and every row that is not valid counted in error_count.
C5_InvalidRowsNeverAbort ==
    \A j \in DOMAIN task :
        (TaskEnded(j) /\ task[j].faults = {} /\ j \in DOMAIN import_jobs) =>
            /\ import_jobs[j].status = "completed"
            /\ task[j].result = "completed"

\* success_count + error_count = processed_rows in a record or snapshot
SumsToProcessed(r) == r.success_count + r.error_count = r.processed_rows

\* C6: in every durable job record and every published snapshot, at every
\* point of the job's life, success_count + error_count = processed_rows.
C6_SuccessPlusErrorIsProcessed ==
    /\ \A j \in DOMAIN import_jobs : SumsToProcessed(import_jobs[j])
    /\ \A j \in DOMAIN progress : SumsToProcessed(progress[j])

\* C6 witness: a record and a snapshot written mid-import that count both a
\* valid and an invalid row.
C6_Witness ==
    \E j \in DOMAIN import_jobs \cap DOMAIN progress :
        /\ import_jobs[j].status = "importing"
        /\ import_jobs[j].success_count >= 1 /\ import_jobs[j].error_count >= 1
        /\ progress[j].status = "importing"
        /\ progress[j].success_count >= 1 /\ progress[j].error_count >= 1

HasUpsertCounts(r) == {"created_count", "updated_count"} \subseteq DOMAIN r

\* C7 as stated: in every durable record and every published snapshot, also
\* those written mid-import, created_count + updated_count = success_count.
C7_CreatedPlusUpdatedIsSuccess ==
    /\ \A j \in DOMAIN import_jobs :
          import_jobs[j].created_count + import_jobs[j].updated_count
             = import_jobs[j].success_count
    /\ \A j \in DOMAIN progress :
          HasUpsertCounts(progress[j]) =>
             progress[j].created_count + progress[j].updated_count
                = progress[j].success_count

\* C7 amended: created_count + updated_count never exceeds success_count in a
\* durable record or snapshot, and equals it in every record and snapshot
\* whose status is completed; mid-import the valid rows of the pending batch
\* are in success_count only.
C7_CreatedPlusUpdatedAtMostSuccess ==
    /\ \A j \in DOMAIN import_jobs :
          LET r == import_jobs[j]
          IN /\ r.created_count + r.updated_count <= r.success_count
             /\ r.status = "completed"
                   => r.created_count + r.updated_count = r.success_count
    /\ \A j \in DOMAIN progress :
          LET s == progress[j]
          IN HasUpsertCounts(s) =>
               /\ s.created_count + s.updated_count <= s.success_count
               /\ s.status = "completed"
                     => s.created_count + s.updated_count = s.success_count

\* C7 witness: a mid-import record and snapshot taken after a chunk flush
\* while a valid row waits in the pending batch.
C7_Witness ==
    \E j \in DOMAIN import_jobs \cap DOMAIN progress :
        /\ import_jobs[j].status = "importing"
        /\ progress[j].status = "importing"
        /\ progress[j].created_count + progress[j].updated_count >= 1
        /\ progress[j].created_count + progress[j].updated_count
              < progress[j].success_count
        /\ import_jobs[j].created_count + import_jobs[j].updated_count
              < import_jobs[j].success_count

\* C8: once total_rows has been persisted, processed_rows <= total_rows in
\* the durable record and in every snapshot published from then on.
C8_ProcessedAtMostTotal ==
    \A j \in DOMAIN task :
        (task[j].total_known /\ j \in DOMAIN import_jobs) =>
            /\ import_jobs[j].processed_rows <= import_jobs[j].total_rows
            /\ (j \in DOMAIN progress /\ progress[j].status # "parsing")
                  => progress[j].processed_rows <= progress[j].total_rows

C10_TerminalJobHasNoFile ==
    \A j \in DOMAIN import_jobs :
        (import_jobs[j].status \in Terminal /\ (j \notin DOMAIN task \/ TaskEnded(j)))
            => j \notin DOMAIN uploads

\* the data rows of the file a task was queued for, and how each one parses
InputRows(t) == DictReader(t.input)

ParsedInput(t, i) == parse_csv_row(InputRows(t)[i], i + 1)

InvalidRows(t) == {i \in 1..Len(InputRows(t)) : ~ParsedInput(t, i).valid}

ValidRows(t) == {i \in 1..Len(InputRows(t)) : ParsedInput(t, i).valid}

\* every row is Valid or Invalid, the valid rows carry pairwise distinct SKUs,
\* none of them in the store (ignoring case) when the job was queued, and no
\* store, file system, fast channel or broker failure hits the run
FreshDistinctInput(t) ==
    /\ t.faults = {}
    /\ \A i \in 1..Len(InputRows(t)) : ~Raised(ParsedInput(t, i))
    /\ \A i, k \in ValidRows(t) :
          i # k => ParsedInput(t, i).data.sku # ParsedInput(t, k).data.sku
    /\ \A i \in ValidRows(t) : \A r \in t.store_at_start :
          Upper(r.sku) # ParsedInput(t, i).data.sku

\* C11: for a file of n data rows of which k fail validation and whose n-k
\* valid rows carry distinct SKUs absent from the store, the run never enters
\* the failure handler and, from the commit of line 216 on, the job is
\* completed with processed_rows = n, success_count = n-k, error_count = k,
\* created_count = n-k and updated_count = 0.
C11_FreshRowsAllCreated ==
    \A j \in DOMAIN task :
        LET t == task[j]
            n == Len(InputRows(t))
            k == Cardinality(InvalidRows(t))
        IN FreshDistinctInput(t) =>
             /\ t.exc = "none"
             /\ t.pc \in {"L219", "L233", "L243", "returned"} =>
                   /\ j \in DOMAIN import_jobs
                   /\ import_jobs[j].status = "completed"
                   /\ import_jobs[j].processed_rows = n
                   /\ import_jobs[j].success_count = n - k
                   /\ import_jobs[j].error_count = k
                   /\ import_jobs[j].created_count = n - k
                   /\ import_jobs[j].updated_count = 0

\* C11 witness: the run of a three-row file whose second row fails validation
\* has returned: 3 processed, 2 valid, 1 invalid, 2 created.
C11_Witness ==
    \E j \in DOMAIN task :
        /\ FreshDistinctInput(task[j])
        /\ task[j].result = "completed"
        /\ Len(InputRows(task[j])) = 3
        /\ InvalidRows(task[j]) = {2}
        /\ import_jobs[j].processed_rows = 3
        /\ import_jobs[j].success_count = 2
        /\ import_jobs[j].error_count = 1
        /\ import_jobs[j].created_count = 2

\* the step commits the statement of upsert o
Executes(o) ==
    /\ store_ops[o].kind = "upsert" /\ store_ops[o].pc = "L295"
    /\ store_ops'[o].pc = "done" /\ store_ops'[o].raised = "none"

\* row r is the product of parsed row p, with p's values
HoldsValues(r, p) ==
    /\ r.sku = p.sku /\ r.name = p.name /\ r.description = p.description
    /\ r.price = p.price /\ r.quantity = p.quantity

\* the table holds every row of the batch already
Applied(rows, batch) ==
    \A i \in 1..Len(batch) : \E r \in rows : HoldsValues(r, batch[i])

WithoutUpdatedAt(rows) ==
    {[f \in DOMAIN r \ {"updated_at"} |-> r[f]] : r \in rows}

\* C12 as stated: after a batch is upserted, each of its SKUs has exactly one
\* product row, holding that batch's name, description, price and quantity,
\* whatever an earlier batch wrote; and upserting a batch the table already
\* holds leaves the table's rows and values unchanged.
C12_RedeliveryChangesNothing ==
    [][\A o \in DOMAIN store_ops :
          Executes(o) =>
             LET batch == store_ops[o].batch
             IN /\ \A i \in 1..Len(batch) :
                      /\ Cardinality({r \in products' : Upper(r.sku) = batch[i].sku}) = 1
                      /\ \E r \in products' : HoldsValues(r, batch[i])
                /\ Applied(products, batch) => products' = products]_vars

\* C12 amended: after a batch is upserted, each of its SKUs has exactly one
\* product row, holding that batch's name, description, price and quantity;
\* upserting a batch the table already holds changes nothing but updated_at,
\* which becomes the time of the new statement on the rows of the batch.
C12_RedeliveryOnlyTouchesUpdatedAt ==
    [][\A o \in DOMAIN store_ops :
          Executes(o) =>
             LET batch == store_ops[o].batch
             IN /\ \A i \in 1..Len(batch) :
                      /\ Cardinality({r \in products' : Upper(r.sku) = batch[i].sku}) = 1
                      /\ \E r \in products' : HoldsValues(r, batch[i])
                /\ Applied(products, batch) =>
                      /\ WithoutUpdatedAt(products') = WithoutUpdatedAt(products)
                      /\ Cardinality(products') = Cardinality(products)
                      /\ \A r \in products' :
                            IF r.sku \in BatchSkus(batch)
                            THEN r.updated_at = clock
                            ELSE r \in products]_vars

\* C12 witness: one job has upserted the same batch twice; the SKU has one
\* row with the batch's values, created by the first statement and stamped by
\* the second.
C12_Witness ==
    \E o1, o2 \in DOMAIN store_ops :
        /\ o1 < o2
        /\ store_ops[o1].kind = "upsert" /\ store_ops[o2].kind = "upsert"
        /\ store_ops[o1].job = store_ops[o2].job
        /\ store_ops[o1].batch = store_ops[o2].batch
        /\ store_ops[o1].pc = "done" /\ store_ops[o2].pc = "done"
        /\ store_ops[o1].raised = "none" /\ store_ops[o2].raised = "none"
        /\ store_ops[o1].created = 1 /\ store_ops[o2].updated = 1
        /\ \E r \in products :
              /\ HoldsValues(r, store_ops[o2].batch[1])
              /\ r.created_at = store_ops[o1].now
              /\ r.updated_at > store_ops[o2].now

\* C13: whatever the interleaving of API creates, updates, deletes and the
\* batch upserts of concurrently running imports, the product table never
\* holds two rows whose SKUs are equal ignoring case.
C13_SkuUniqueIgnoringCase ==
    \A r, q \in products : Upper(r.sku) = Upper(q.sku) => r = q

\* C13 witness: a create request passed its lookup, lost the race for its SKU
\* to a batch upsert that committed first and was refused by the store.
C13_Witness ==
    \E o1, o2 \in DOMAIN store_ops :
        /\ store_ops[o1].kind = "create_product" /\ store_ops[o1].code = 500
        /\ store_ops[o2].kind = "upsert" /\ store_ops[o2].pc = "done"
        /\ store_ops[o1].data.sku \in BatchSkus(store_ops[o2].batch)
        /\ \E r \in products : r.sku = store_ops[o1].data.sku

IsUpperCase(s) == \A i \in 1..Len(s) : UpperChar(s[i]) = s[i]

\* C14: every SKU in the product table is in uppercase, whether the create
\* endpoint or an import upsert wrote it, and no step (product update, upsert
\* on conflict, or any other) changes the SKU of a row that stays in the table.
C14_SkuUppercaseAndStable ==
    /\ [](\A r \in products : IsUpperCase(r.sku))
    /\ [][\A r \in products : \A q \in products' : q.id = r.id => q.sku = r.sku]_vars

\* C14 witness: a product created through the API from a lowercase SKU, later
\* hit by an import upsert, is stored under the uppercase SKU.
C14_Witness ==
    \E o1, o2 \in DOMAIN store_ops :
        /\ o1 < o2
        /\ store_ops[o1].kind = "create_product" /\ store_ops[o1].code = 201
        /\ ~IsUpperCase(store_ops[o1].body.sku)
        /\ store_ops[o2].kind = "upsert" /\ store_ops[o2].pc = "done"
        /\ store_ops[o2].updated = 1
        /\ \E r \in products :
              /\ r.sku = Upper(Strip(store_ops[o1].body.sku))
              /\ r.sku \in BatchSkus(store_ops[o2].batch)
              /\ r.created_at = store_ops[o1].now
              /\ r.updated_at > store_ops[o2].now


\* ------------------------------------------------- webhook dispatcher claims
\* the step in which invocation d of send_webhook makes its POST and ends
Posted(d) == deliveries[d].state = "running" /\ deliveries'[d].state # "running"

\* the last POST of d got a response with a status below 400
Succeeded(m) == m.outcome.kind = "response" /\ m.outcome.status_code < 400

\* the last POST of d got a response with status >= 400, or raised
Failed(m) == m.outcome.kind # "none" /\ ~Succeeded(m)

\* C15: every delivery attempt leaves the webhook's stored failure count at 0
\* after a response with status < 400, and one above its value before the
\* attempt's commit after a response with status >= 400, a timeout or a
\* network error.
C15_AttemptSetsFailureCount ==
    [][\A d \in DOMAIN deliveries :
         Posted(d) /\ deliveries[d].webhook_id \in DOMAIN webhooks =>
            LET w == deliveries[d].webhook_id
            IN IF Succeeded(deliveries'[d])
               THEN webhooks'[w].failure_count = 0
               ELSE webhooks'[w].failure_count = webhooks[w].failure_count + 1]_vars

\* C15, for attempts that do not overlap another attempt's commit: the count
\* the invocation loaded is still the stored one when it commits.
C15_SequentialAttempts ==
    [][\A d \in DOMAIN deliveries :
         /\ Posted(d)
         /\ deliveries[d].webhook_id \in DOMAIN webhooks
         /\ webhooks[deliveries[d].webhook_id].failure_count
               = deliveries[d].orm.failure_count
         => LET w == deliveries[d].webhook_id
            IN IF Succeeded(deliveries'[d])
               THEN webhooks'[w].failure_count = 0
               ELSE webhooks'[w].failure_count = webhooks[w].failure_count + 1]_vars

\* two invocations for one webhook both loaded failure_count 0; the one that
\* failed committed 1, and the successful one that committed after it left the 1
C15_LostReset ==
    \E d, x \in DOMAIN deliveries :
        /\ d # x
        /\ deliveries[d].webhook_id = deliveries[x].webhook_id
        /\ deliveries[d].webhook_id \in DOMAIN webhooks
        /\ deliveries[d].state = "done" /\ Succeeded(deliveries[d])
        /\ deliveries[x].posts = 1 /\ Failed(deliveries[x])
        /\ deliveries[x].outcome.kind = "response"
        /\ webhooks[deliveries[d].webhook_id].failure_count = 1
        /\ webhooks[deliveries[d].webhook_id].last_response_code
              = deliveries[d].outcome.status_code


\* the answer 503
Status503 == [kind |-> "response", status_code |-> 503]

\* delivery m has made its POSTs, got 503 each time, and its last invocation
\* has ended after committing the stats (the webhook was not deleted while
\* the POST was under way)
Always503(m) ==
    /\ m.posts > 0 /\ m.same_answer /\ m.outcome = Status503
    /\ m.state # "running" /\ m.result # "StaleDataError"

C17_BackoffSchedule ==
    \A d \in DOMAIN deliveries :
        LET m == deliveries[d]
        IN /\ Len(m.countdowns) = m.retries
           /\ m.retries <= 3
           /\ \A i \in 1..Len(m.countdowns) : m.countdowns[i] = 60 * i
           /\ m.posts <= m.runs
           /\ m.runs <= m.retries + 1
           /\ m.state = "queued" /\ m.retries > 0 => m.retry_requested

\* three retries after different kinds of failure, the last one a timeout
C17_Witness ==
    \E d \in DOMAIN deliveries :
        /\ deliveries[d].countdowns = <<60, 120, 180>>
        /\ deliveries[d].state = "queued"
        /\ deliveries[d].posts = 3
        /\ deliveries[d].outcome.kind = "TimeoutException"
        /\ ~deliveries[d].same_answer

\* the outcomes the claim calls transient
Transient(outcome) ==
    \/ outcome.kind \in {"TimeoutException", "RequestError"}
    \/ outcome.kind = "response" /\ outcome.status_code >= 500

\* the last invocation of m has made its POST and ended
Attempted(m) == m.outcome.kind # "none" /\ m.state # "running"

\* what the claim says of a delivery whose last POST has been made
RetryDecision(m) ==
    /\ m.retry_requested <=> Transient(m.outcome)
    /\ m.outcome.kind = "response" /\ m.outcome.status_code \in 400..499 =>
          m.state = "done" /\ m.result = "failure"
    /\ m.outcome.kind = "response" /\ m.outcome.status_code < 400 =>
          m.state = "done" /\ m.result = "success"
    /\ m.state = "queued" => m.retry_requested

\* C18 as stated: after every POST a retry is requested exactly if the answer
\* was a status >= 500, a timeout or a network error; a status 400..499 ends
\* the delivery as failed and a status < 400 ends it as a success.
C18_RetryExactlyForTransient ==
    \A d \in DOMAIN deliveries :
        Attempted(deliveries[d]) => RetryDecision(deliveries[d])

\* C18 amended: the same for every POST whose stats were committed; when the
\* webhook was deleted while the POST was under way the commit fails, and the
\* invocation ends with that error and without a retry, whatever the answer.
C18_RetryDecisionAfterCommit ==
    \A d \in DOMAIN deliveries :
        Attempted(deliveries[d]) =>
            IF deliveries[d].result = "StaleDataError"
            THEN /\ deliveries[d].state = "done"
                 /\ ~deliveries[d].retry_requested
                 /\ deliveries[d].webhook_id \notin DOMAIN webhooks
            ELSE RetryDecision(deliveries[d])

\* one delivery ended by a 499, another re-queued after a 500
C18_Witness ==
    \E d, x \in DOMAIN deliveries :
        /\ deliveries[d].outcome = [kind |-> "response", status_code |-> 499]
        /\ deliveries[d].state = "done" /\ deliveries[d].result = "failure"
        /\ ~deliveries[d].retry_requested
        /\ deliveries[x].outcome = [kind |-> "response", status_code |-> 500]
        /\ deliveries[x].state = "queued" /\ deliveries[x].retry_requested


\* an invocation of send_webhook for delivery d starts in this step
Dispatched(d) == deliveries[d].state = "queued" /\ deliveries'[d] # deliveries[d]

\* the webhook of delivery d is missing or disabled
MissingOrDisabled(d) ==
    \/ deliveries[d].webhook_id \notin DOMAIN webhooks
    \/ ~webhooks[deliveries[d].webhook_id].is_enabled

\* C19: an invocation that finds its webhook missing or disabled ends the
\* delivery without a POST and without a retry, and changes no webhook row.
C19_MissingOrDisabledIsNoOp ==
    [][\A d \in DOMAIN deliveries :
         Dispatched(d) /\ MissingOrDisabled(d) =>
            /\ deliveries'[d].posts = deliveries[d].posts
            /\ deliveries'[d].state = "done"
            /\ deliveries'[d].result \in {"not_found", "skipped"}
            /\ ~deliveries'[d].retry_requested
            /\ deliveries'[d].retries = deliveries[d].retries
            /\ deliveries'[d].countdowns = deliveries[d].countdowns
            /\ webhooks' = webhooks]_vars

\* one delivery skipped at its first retry, after its webhook was disabled,
\* and one that found its webhook deleted after the fan-out had selected it
C19_Witness ==
    \E d, x \in DOMAIN deliveries :
        /\ deliveries[d].result = "skipped"
        /\ deliveries[d].retries = 1 /\ deliveries[d].posts = 1
        /\ deliveries[d].runs = 2
        /\ deliveries[x].result = "not_found"
        /\ deliveries[x].posts = 0 /\ deliveries[x].runs = 1

\* the webhook has a secret: the column is neither NULL nor the empty string
HasSecret(w) == w.secret # None /\ Len(w.secret) > 0

\* the request carries the signature header
Signed(request) == "X-Webhook-Signature" \in DOMAIN request.headers

\* the invocation of delivery d prepares its request in this step
Prepared(d) == deliveries[d].state = "queued" /\ deliveries'[d].state = "running"

\* C20: the request of a delivery carries X-Webhook-Signature exactly if its
\* webhook has a secret, and then the header is "sha256=" followed by the
\* HMAC-SHA256 of the request body under that secret; requests with equal
\* body signed under the same secret carry equal signatures.
C20_SignatureIffSecret ==
    /\ [][\A d \in DOMAIN deliveries :
            Prepared(d) =>
               LET w == webhooks[deliveries[d].webhook_id]
                   request == deliveries'[d].request
               IN /\ Signed(request) <=> HasSecret(w)
                  /\ Signed(request) =>
                        request.headers["X-Webhook-Signature"]
                           = <<"sha256=", HmacSha256Hex(w.secret, request.content)>>]_vars
    /\ [](\A d, x \in DOMAIN deliveries :
            /\ deliveries[d].request # <<>> /\ deliveries[x].request # <<>>
            /\ Signed(deliveries[d].request) /\ Signed(deliveries[x].request)
            /\ deliveries[d].request.content = deliveries[x].request.content
            /\ deliveries[d].webhook_id = deliveries[x].webhook_id
            => deliveries[d].request.headers["X-Webhook-Signature"]
                  = deliveries[x].request.headers["X-Webhook-Signature"])

\* a signed request for the webhook with secret "x" next to an unsigned one
\* for the webhook without a secret
C20_Witness ==
    \E d, x \in DOMAIN deliveries :
        /\ deliveries[d].posts = 1 /\ deliveries[x].posts = 1
        /\ deliveries[d].webhook_id \in DOMAIN webhooks
        /\ deliveries[x].webhook_id \in DOMAIN webhooks
        /\ webhooks[deliveries[d].webhook_id].secret = <<"x">>
        /\ deliveries[d].request.headers["X-Webhook-Signature"]
              = <<"sha256=", HmacSha256Hex(<<"x">>, deliveries[d].request.content)>>
        /\ webhooks[deliveries[x].webhook_id].secret = NoSecret
        /\ ~Signed(deliveries[x].request)


\* ------------------------------------------------------------ fan-out claims
\* trigger_webhooks runs in this step
FansOut == Len(fanouts') = Len(fanouts) + 1

\* the deliveries a step adds
Enqueued == {d \in DOMAIN deliveries' : d \notin DOMAIN deliveries}

\* C21: a fan-out adds exactly one delivery for every webhook that is enabled
\* and subscribed to the event's type, each carrying the event, adds none for
\* any other webhook, and returns the number of deliveries it added.
C21_FanOutSelectsEnabledSubscribers ==
    [][FansOut =>
         LET e == Head(webhook_queue)
         IN /\ \A w \in DOMAIN webhooks :
                 Cardinality({d \in Enqueued : deliveries'[d].webhook_id = w})
                    = IF webhooks[w].is_enabled /\ webhooks[w].event_type = e.event_type
                      THEN 1 ELSE 0
            /\ \A d \in Enqueued :
                 /\ deliveries'[d].webhook_id \in DOMAIN webhooks
                 /\ deliveries'[d].event_type = e.event_type
                 /\ deliveries'[d].payload = e.payload
                 /\ deliveries'[d].state = "queued" /\ deliveries'[d].posts = 0
            /\ \A d \in DOMAIN deliveries : deliveries'[d] = deliveries[d]
            /\ fanouts'[Len(fanouts')].triggered_webhooks = Cardinality(Enqueued)]_vars

\* one fan-out that selected two webhooks, and one that selected none because
\* the only subscriber was disabled
C21_Witness ==
    \E i, k \in DOMAIN fanouts :
        /\ fanouts[i].triggered_webhooks = 2
        /\ fanouts[k].triggered_webhooks = 0
        /\ \E d, x \in DOMAIN deliveries :
              deliveries[d].webhook_id = 1 /\ deliveries[x].webhook_id = 2


\* deliveries d and x come from one fan-out and go to different webhooks
SameFanOut(d, x) ==
    /\ deliveries[d].event_type = deliveries[x].event_type
    /\ deliveries[d].payload = deliveries[x].payload
    /\ deliveries[d].webhook_id # deliveries[x].webhook_id

\* a step of the dispatcher for delivery d
DispatcherStep(d) == d \in DOMAIN deliveries /\ deliveries'[d] # deliveries[d]

\* C22: whatever the other deliveries did, a queued delivery can be started
\* (while the pool starts invocations at all) and a started one can make its
\* POST; and a step of the dispatcher for one delivery leaves the row of every
\* other webhook as it was.
C22_DeliveriesIndependent ==
    /\ [](\A x \in DOMAIN deliveries :
            /\ deliveries[x].state = "queued" /\ Runs < MaxRuns
                  => ENABLED (SendLoad(x) /\ UNCHANGED outside_hooks)
            /\ deliveries[x].state = "running"
                  => \A outcome \in Outcomes :
                        ENABLED (SendPost(x, outcome) /\ UNCHANGED outside_hooks))
    /\ [][\A d \in DOMAIN deliveries :
            DispatcherStep(d) =>
               \A w \in DOMAIN webhooks :
                  w # deliveries[d].webhook_id =>
                     w \in DOMAIN webhooks' /\ webhooks'[w] = webhooks[w]]_vars

\* of two deliveries of one fan-out, the one to webhook 1 has exhausted its
\* retries and the one to webhook 2 was made after that and succeeded
C22_Witness ==
    \E d, x \in DOMAIN deliveries :
        /\ SameFanOut(d, x)
        /\ deliveries[d].result = "retries_exhausted"
        /\ deliveries[x].state = "done" /\ deliveries[x].result = "success"
        /\ deliveries[d].webhook_id \in DOMAIN webhooks
        /\ deliveries[x].webhook_id \in DOMAIN webhooks
        /\ webhooks[deliveries[d].webhook_id].failure_count = 4
        /\ webhooks[deliveries[x].webhook_id].failure_count = 0
        /\ webhooks[deliveries[x].webhook_id].last_response_code = 200
        /\ webhooks[deliveries[d].webhook_id].last_response_code = 503


\* ---------------------------------------------------- Row Validator claims
\* the text of a field as the rules see it: trimmed, and empty when the
\* record or the header lacks the field
FieldText(row, c) ==
    IF c \notin DOMAIN row \/ row[c] = None THEN <<>> ELSE Strip(row[c])

\* the text is a decimal numeral: an optional sign, then digits with at most
\* one point among them
IsNumeral(s, points) ==
    LET u == IF s # <<>> /\ s[1] \in {"+", "-"} THEN Tail(s) ELSE s
    IN /\ \A i \in 1..Len(u) : u[i] \in Digits \cup {"."}
       /\ Cardinality({i \in 1..Len(u) : u[i] = "."}) <= points
       /\ \E i \in 1..Len(u) : u[i] \in Digits

\* the numeral is below zero
BelowZero(s) == s[1] = "-" /\ \E i \in 1..Len(s) : s[i] \in Digits \ {"0"}

PriceRuleViolated(row) ==
    LET s == FieldText(row, "price")
    IN s # <<>> /\ (~IsNumeral(s, 1) \/ BelowZero(s))

QuantityRuleViolated(row) ==
    LET s == FieldText(row, "quantity")
    IN s # <<>> /\ (~IsNumeral(s, 0) \/ BelowZero(s))

RuleViolated(row) ==
    \/ FieldText(row, "sku") = <<>>
    \/ FieldText(row, "name") = <<>>
    \/ PriceRuleViolated(row)
    \/ QuantityRuleViolated(row)

\* the rows the validator has been applied to
Parsed == {i \in DOMAIN validated : "parsed" \in DOMAIN validated[i]}

\* C27: for every raw row the validator returns (it does not raise) a result
\* that is either Valid or Invalid, and Invalid exactly if a field rule is
\* violated.
C27_ValidXorInvalid ==
    \A i \in Parsed :
        LET v == validated[i]
        IN /\ ~Raised(v.parsed)
           /\ v.parsed.valid \in BOOLEAN
           /\ v.parsed.valid => "data" \in DOMAIN v.parsed /\ "errors" \notin DOMAIN v.parsed
           /\ ~v.parsed.valid =>
                 /\ "errors" \in DOMAIN v.parsed /\ "data" \notin DOMAIN v.parsed
                 /\ v.parsed.errors # <<>>
           /\ ~v.parsed.valid <=> RuleViolated(v.row)

\* every field of the row is a string (the record is as long as the header)
AllFieldsPresent(row) == \A c \in DOMAIN row : row[c] # None

\* C27 for records that are not shorter than the header
C27_WhenAllFieldsPresent ==
    \A i \in Parsed :
        LET v == validated[i]
        IN AllFieldsPresent(v.row) =>
             /\ ~Raised(v.parsed)
             /\ v.parsed.valid \in BOOLEAN
             /\ ~v.parsed.valid <=> RuleViolated(v.row)
             /\ ~v.parsed.valid => v.parsed.errors # <<>>

\* the record "a,x" under the five-column header: a rule-abiding SKU and name,
\* and the validator raises
C27_ShortRowRaises ==
    \E i \in Parsed :
        /\ validated[i].row = [sku |-> <<"a">>, name |-> <<"x">>, description |-> None,
                               price |-> None, quantity |-> None]
        /\ validated[i].parsed = [raised |-> "AttributeError"]

\* the price errors among the errors of an Invalid result
PriceErrors(parsed) ==
    {parsed.errors[k] : k \in {n \in 1..Len(parsed.errors) :
        parsed.errors[n].msg \in {"Price cannot be negative", "Invalid price format"}}}

\* C28: for a record with all its fields, an empty price adds no error and a
\* Valid row then has no price; a price that is no decimal numeral makes the
\* row Invalid with the format error that quotes the (trimmed) text; a
\* negative price makes it Invalid with the negative-price error; any other
\* decimal adds no error and a Valid row then carries that decimal.
C28_PriceRule ==
    \A i \in Parsed :
        LET v == validated[i]
            s == FieldText(v.row, "price")
        IN AllFieldsPresent(v.row) =>
             /\ ~Raised(v.parsed)
             /\ s = <<>> =>
                   /\ ~v.parsed.valid => PriceErrors(v.parsed) = {}
                   /\ v.parsed.valid => v.parsed.data.price = NoPrice
                   /\ v.parsed.valid <=>
                        ~(FieldText(v.row, "sku") = <<>> \/ FieldText(v.row, "name") = <<>>
                          \/ QuantityRuleViolated(v.row))
             /\ s # <<>> /\ ~IsNumeral(s, 1) =>
                   /\ ~v.parsed.valid
                   /\ PriceErrors(v.parsed) = {[msg |-> "Invalid price format", raw |-> s]}
             /\ s # <<>> /\ IsNumeral(s, 1) /\ BelowZero(s) =>
                   /\ ~v.parsed.valid
                   /\ PriceErrors(v.parsed) =
                         {[msg |-> "Price cannot be negative", raw |-> <<>>]}
             /\ s # <<>> /\ IsNumeral(s, 1) /\ ~BelowZero(s) =>
                   /\ ~v.parsed.valid => PriceErrors(v.parsed) = {}
                   /\ v.parsed.valid =>
                        /\ v.parsed.data.price.ok
                        /\ v.parsed.data.price = ParseDecimal(s)
                   /\ v.parsed.valid <=>
                        ~(FieldText(v.row, "sku") = <<>> \/ FieldText(v.row, "name") = <<>>
                          \/ QuantityRuleViolated(v.row))

\* the price "1.5" was accepted as 15 / 10^1
C28_Witness ==
    \E i \in Parsed :
        /\ validated[i].row = [sku |-> <<"a">>, name |-> <<"x">>, description |-> <<>>,
                               price |-> <<"1", ".", "5">>, quantity |-> <<"2">>]
        /\ validated[i].parsed.valid
        /\ validated[i].parsed.data.price =
              [ok |-> TRUE, neg |-> FALSE, coef |-> 15, scale |-> 1]
        /\ validated[i].parsed.data.sku = <<"A">>


\* ------------------------------------------------------ product API claims
\* the requests and upserts that start in a step
Started == {o \in DOMAIN store_ops' : o \notin DOMAIN store_ops}

\* a product with this SKU, ignoring case, is in the store
SkuTaken(sku) == \E r \in products : Upper(r.sku) = Upper(sku)

\* C29: a create request whose SKU is the SKU of a product in the store,
\* ignoring case, ends at once with the 400 'already exists', changes no
\* product and hands no event to the fan-out; and a request that has ended
\* that way stays ended.
C29_DuplicateCreateRejected ==
    /\ [][\A o \in Started :
            /\ store_ops'[o].kind = "create_product"
            /\ SkuTaken(Strip(store_ops'[o].body.sku))
            => /\ store_ops'[o].code = 400
               /\ store_ops'[o].pc = "done"
               /\ products' = products
               /\ webhook_queue' = webhook_queue]_vars
    /\ [][\A o \in DOMAIN store_ops :
            store_ops[o].kind = "create_product" /\ store_ops[o].code = 400
            => store_ops'[o] = store_ops[o]]_vars

\* the request with SKU "a" was refused because of the product "A", and the
\* store holds that product alone, as before
C29_Witness ==
    \E o \in DOMAIN store_ops :
        /\ store_ops[o].kind = "create_product"
        /\ store_ops[o].body.sku = <<"a">>
        /\ store_ops[o].code = 400
        /\ products = {ExistingProduct}
        /\ webhook_queue = <<>>


\* ------------------------------------------------------- import API claims
\* the filename is some text followed by ".csv"
HasCsvSuffix(f) ==
    \E k \in 0..Len(f) : f = SubSeq(f, 1, k) \o <<".", "c", "s", "v">>

\* the upload requests answered so far whose filename has no .csv suffix
RefusedUploads == {j \in DOMAIN responses : ~HasCsvSuffix(responses[j].filename)}

\* C26: an upload whose filename does not end in .csv is answered with the
\* 400 error, and no job row, no stored file and no queued task exists for it.
C26_NonCsvUploadRejected ==
    \A j \in RefusedUploads :
        /\ responses[j].code = 400
        /\ j \notin DOMAIN import_jobs
        /\ j \notin DOMAIN uploads
        /\ j \notin DOMAIN task

\* the upload named "csv", without the dot, was refused
C26_Witness ==
    \E j \in RefusedUploads :
        /\ responses[j].filename = <<"c", "s", "v">>
        /\ responses[j].code = 400


\* the statuses the durable record and the snapshot of job j show
ShownStatuses(j) ==
    {import_jobs[k].status : k \in DOMAIN import_jobs \cap {j}}
        \cup {progress[k].status : k \in DOMAIN progress \cap {j}}

\* the rows of job j, durable and snapshot, that show status importing
ShownImporting(j) ==
    {import_jobs[k] : k \in {k \in DOMAIN import_jobs \cap {j} :
                                import_jobs[k].status = "importing"}}
        \cup {progress[k] : k \in {k \in DOMAIN progress \cap {j} :
                                      progress[k].status = "importing"}}

\* C30, as stated: importing is shown only once the task has called the
\* upsert, and when the task reads the row after an upsert its job row shows
\* importing (or a terminal status).
C30_ImportingAtFirstFlush ==
    \A j \in DOMAIN task :
        /\ "importing" \in ShownStatuses(j) => task[j].upserts > 0
        /\ task[j].upserts > 0 /\ task[j].pc = "L155" /\ j \in DOMAIN import_jobs
           => import_jobs[j].status \in {"importing"} \cup Terminal

\* C30, as the code has it: importing is written by the progress update.  A
\* row or snapshot that shows importing carries a positive multiple of
\* PROGRESS_UPDATE_INTERVAL as processed_rows, whatever the number of upserts
\* made, the task having read at least that many rows; and a durable row that
\* shows importing shows importing or a terminal status for as long as it
\* exists.
C30_ImportingAtProgressUpdate ==
    /\ [](\A j \in DOMAIN task : \A shown \in ShownImporting(j) :
            /\ shown.processed_rows > 0
            /\ shown.processed_rows % PROGRESS_UPDATE_INTERVAL = 0
            /\ task[j].processed_rows >= shown.processed_rows)
    /\ [][\A j \in DOMAIN import_jobs :
            import_jobs[j].status = "importing"
               /\ j \in DOMAIN import_jobs'
            => import_jobs'[j].status \in {"importing"} \cup Terminal]_vars

\* a job row shows importing although its task has made no upsert: the rows
\* read so far were all invalid
C30_Witness ==
    \E j \in DOMAIN task \cap DOMAIN import_jobs :
        /\ import_jobs[j].status = "importing"
        /\ import_jobs[j].processed_rows = PROGRESS_UPDATE_INTERVAL
        /\ task[j].upserts = 0

\* a job completed after an upsert without ever showing importing is the
\* other half: a file shorter than the interval
C30_NeverImporting ==
    \E j \in DOMAIN task \cap DOMAIN import_jobs :
        /\ import_jobs[j].status = "completed"
        /\ task[j].upserts > 0
        /\ task[j].processed_rows < PROGRESS_UPDATE_INTERVAL


\* the fields of a status response the snapshot may replace, and the others
SnapshotFields ==
    {"status", "processed_rows", "success_count", "error_count",
     "created_count", "updated_count"}

DurableFields ==
    {"filename", "total_rows", "error_details", "started_at", "completed_at"}

\* the status requests that are answered in a step
StatusAnswered ==
    {r \in DOMAIN requests :
        /\ requests[r].kind = "status" /\ requests[r].pc = "L85"
        /\ requests'[r].code = 200}

\* the status requests that take a step
StatusActs ==
    {r \in DOMAIN requests' :
        /\ requests'[r].kind = "status"
        /\ (r \in DOMAIN requests => requests'[r] # requests[r])}

\* C25: the response of a status query carries, for the status and the five
\* counters, the value of the job's snapshot where a snapshot is present and
\* has the field, and the value of the job row the request loaded otherwise;
\* every other field is the one of the job row; and no step of a status
\* query changes a job row or a snapshot.
C25_StatusMergesSnapshot ==
    /\ [][\A r \in StatusAnswered :
            LET job == requests[r].loaded[1]
                j == requests[r].job_id
                response == requests'[r].body[1]
            IN /\ \A f \in SnapshotFields :
                    response[f] = IF j \in DOMAIN progress /\ f \in DOMAIN progress[j]
                                  THEN progress[j][f] ELSE job[f]
               /\ \A f \in DurableFields : response[f] = job[f]]_vars
    /\ [][StatusActs # {} => import_jobs' = import_jobs /\ progress' = progress]_vars

\* a response that shows the snapshot's validating, and the total the job row
\* has, for a job row that still says parsing
C25_Witness ==
    \E r \in DOMAIN requests :
        /\ requests[r].kind = "status" /\ requests[r].code = 200
        /\ requests[r].loaded[1].status = "parsing"
        /\ requests[r].body[1].status = "validating"
        /\ requests[r].body[1].total_rows = 3

\* a response without a snapshot is the job row
C25_WitnessDurable ==
    \E r \in DOMAIN requests :
        /\ requests[r].kind = "status" /\ requests[r].code = 200
        /\ requests[r].last_data = <<>>
        /\ requests[r].body = requests[r].loaded


\* the streams that were opened, the job having been found
Streams == {r \in DOMAIN requests : requests[r].kind = "stream" /\ requests[r].code # 404}

Positions(r, name) ==
    {i \in 1..Len(requests[r].events) : requests[r].events[i].event = name}

\* the positions of the completed and failed snapshots a stream has sent
TerminalSent(r) ==
    {i \in Positions(r, "progress") :
        requests[r].events[i].data[1].status \in Terminal}

Left(r) == requests[r].pc \in {"L135", "done"}

StreamSafe(r) ==
    LET ev == requests[r].events
        ended == Positions(r, "stream_ended")
        last == TerminalSent(r) \cup Positions(r, "error")
    IN /\ Cardinality(ended) <= 1
       /\ ended \subseteq {Len(ev)}
       /\ requests[r].pc = "done" <=> ended # {}
       /\ requests[r].polls <= max_polls
       /\ last # {} => Left(r) /\ last = {Len(ev) - Cardinality(ended)}
       /\ Left(r) => last # {} \/ requests[r].polls = max_polls

\* C24: a stream sends stream_ended at most once and as its last event, and
\* has sent it exactly when it is over; it reads the snapshot at most 600
\* times; a completed or failed snapshot, or the error event of a failed
\* read, is the last event before stream_ended, the loop being left at once;
\* the loop is left for one of these or after the 600th read; and every
\* stream that was opened is over at some time.
C24_StreamTerminates ==
    /\ [](\A r \in Streams : StreamSafe(r))
    /\ \A r \in 1..MaxRequests : (r \in Streams) ~> (r \in Streams /\ requests[r].pc = "done")

\* a stream that ended after 600 reads without a completed or failed snapshot
C24_Witness ==
    \E r \in Streams :
        /\ requests[r].pc = "done"
        /\ requests[r].polls = max_polls
        /\ TerminalSent(r) = {}
        /\ requests[r].events[Len(requests[r].events)].event = "stream_ended"

\* a stream that ended on the completed snapshot, after another one
C24_WitnessCompleted ==
    \E r \in Streams :
        /\ requests[r].pc = "done"
        /\ Len(requests[r].events) = 3
        /\ requests[r].events[2].event = "progress"
        /\ requests[r].events[2].data[1].status = "completed"

\* a stream that ended on a read error
C24_WitnessError ==
    \E r \in Streams :
        /\ requests[r].pc = "done"
        /\ Positions(r, "error") # {}


\* the deletions answered with 200
Deletions == {d \in DOMAIN requests : requests[d].kind = "delete" /\ requests[d].code = 200}

\* the status queries and stream requests made after such an answer
AfterDeletion ==
    {q \in DOMAIN requests :
        requests[q].kind \in {"status", "stream"} /\ requests[q].deleted_before}

\* C23: once the deletion of a job is answered, the job has no row, no
\* uploaded file and no snapshot, and every status query and stream request
\* made from then on is answered with 404.
C23_DeletionRemovesEverything ==
    /\ \A d \in Deletions :
        /\ requests[d].job_id \notin DOMAIN import_jobs
        /\ requests[d].job_id \notin DOMAIN uploads
        /\ requests[d].job_id \notin DOMAIN progress
    /\ \A q \in AfterDeletion : requests[q].code = 404

\* what holds of every deletion: the row and the file are gone for good and
\* later requests get 404
C23_RowAndFileStayDeleted ==
    /\ \A d \in Deletions :
        /\ requests[d].job_id \notin DOMAIN import_jobs
        /\ requests[d].job_id \notin DOMAIN uploads
    /\ \A q \in AfterDeletion : requests[q].code = 404

\* and of a deletion requested after the import task has ended: the snapshot
\* is gone as well
C23_SnapshotGoneAfterTaskEnd ==
    \A d \in Deletions :
        requests[d].task_over => requests[d].job_id \notin DOMAIN progress

\* a status query answered with 404 after the deletion of a finished job
C23_LaterQueryNotFound ==
    \E d \in Deletions, q \in AfterDeletion :
        /\ requests[d].task_over
        /\ requests[q].kind = "status"
        /\ requests[q].code = 404

\* the snapshot the task published after the deletion was answered
C23_SnapshotAfterDeletion ==
    \E d \in Deletions :
        /\ requests[d].job_id \in DOMAIN progress
        /\ requests[d].job_id \notin DOMAIN import_jobs


\* ------------------------------------------------ end of the import claims
\* the import.completed events of job j in a queue
CompletedEvents(queue, j) ==
    {i \in 1..Len(queue) :
        queue[i].event_type = "import.completed" /\ queue[i].payload.job_id = j}

\* the job row of j says completed, with the task's final counters and a
\* completion time
RowCompleted(j) ==
    /\ j \in DOMAIN import_jobs
    /\ import_jobs[j].status = "completed"
    /\ import_jobs[j].completed_at # "NULL"
    /\ \A f \in {"processed_rows", "success_count", "error_count",
                 "created_count", "updated_count"} : import_jobs[j][f] = task[j][f]

SnapshotCompleted(j) ==
    /\ j \in DOMAIN progress
    /\ progress[j].status = "completed"
    /\ progress[j].progress_percentage = 100

\* the steps of the end of an import: the 100% snapshot appears, the event is
\* handed over, the file of a successful import goes
PublishesCompleted(j) ==
    /\ j \in DOMAIN progress'
    /\ progress'[j].status = "completed"
    /\ j \in DOMAIN progress => progress[j].status # "completed"

HandsOverEvent(j) == CompletedEvents(webhook_queue', j) # CompletedEvents(webhook_queue, j)

RemovesFileAtEnd(j) ==
    /\ j \in DOMAIN uploads /\ j \notin DOMAIN uploads'
    /\ task[j].exc = "none"

\* C31: the 100% snapshot is published only when the job row says completed
\* with the final counters and the completion time; the import.completed
\* event is handed over only when that snapshot is published, it is the only
\* one of the job and carries the job id and the final counters; the file of
\* an import that has not failed is removed only when the event has been
\* handed over.
C31_FinalStepsInOrder ==
    [][\A j \in DOMAIN task :
         /\ PublishesCompleted(j) => RowCompleted(j)
         /\ HandsOverEvent(j) =>
              /\ RowCompleted(j) /\ SnapshotCompleted(j)
              /\ CompletedEvents(webhook_queue, j) = {}
              /\ Cardinality(CompletedEvents(webhook_queue', j)) = 1
              /\ \A i \in CompletedEvents(webhook_queue', j) :
                    \A f \in {"success_count", "error_count", "created_count",
                              "updated_count"} :
                        webhook_queue'[i].payload[f] = import_jobs[j][f]
         /\ RemovesFileAtEnd(j) =>
              /\ RowCompleted(j) /\ SnapshotCompleted(j)
              /\ Cardinality(CompletedEvents(webhook_queue, j)) = 1]_vars

\* an import that returned after all four steps
C31_Witness ==
    \E j \in DOMAIN task :
        /\ task[j].pc = "returned" /\ task[j].result = "completed"
        /\ RowCompleted(j) /\ SnapshotCompleted(j)
        /\ Cardinality(CompletedEvents(webhook_queue, j)) = 1
        /\ j \notin DOMAIN uploads
        /\ task[j].success_count > 0


\* the jobs whose row says completed
CompletedJobs == {j \in DOMAIN task \cap DOMAIN import_jobs : import_jobs[j].status = "completed"}

\* the k-th stored error is the one of the k-th invalid row of the file, with
\* that row's number, its errors and its SKU text
IsKthInvalidRow(t, entry, k) ==
    LET i == entry.row - 1
    IN /\ i \in InvalidRows(t)
       /\ Cardinality({x \in InvalidRows(t) : x < i}) = k - 1
       /\ entry.errors = ParsedInput(t, i).errors
       /\ entry.sku = InputRows(t)[i].sku

\* C32: the error list of a completed job holds the first
\* min(error_count, cap) invalid rows of the file in file order, each with
\* its row number counted from 2, error_count is the number of all invalid
\* rows, and no list, in the task or in a job row, is ever longer than the
\* cap (MaxStoredErrors here, 100 in the code).
C32_ErrorListIsCappedPrefix ==
    /\ \A j \in CompletedJobs :
        LET t == task[j]
            list == import_jobs[j].error_details
            invalid == Cardinality(InvalidRows(t))
        IN /\ import_jobs[j].error_count = invalid
           /\ Len(list) = IF invalid < MaxStoredErrors THEN invalid ELSE MaxStoredErrors
           /\ \A k \in 1..Len(list) : IsKthInvalidRow(t, list[k], k)
    /\ \A j \in DOMAIN task : Len(task[j].error_details) <= MaxStoredErrors
    /\ \A j \in DOMAIN import_jobs : Len(import_jobs[j].error_details) <= MaxStoredErrors

\* a completed job with more invalid rows than the list holds: the rows 2 and
\* 3 are stored, the later one is only counted
C32_Witness ==
    \E j \in CompletedJobs :
        /\ import_jobs[j].error_count > MaxStoredErrors
        /\ Len(import_jobs[j].error_details) = MaxStoredErrors
        /\ import_jobs[j].error_details[1].row = 2
        /\ import_jobs[j].error_details[2].row = 3


\* ------------------------------------------------------ batch upsert claims
\* the upserts whose statement is executed and committed in a step
UpsertsExecuted ==
    {o \in DOMAIN store_ops :
        /\ store_ops[o].kind = "upsert" /\ store_ops[o].pc = "L295"
        /\ store_ops'[o].pc = "done" /\ store_ops'[o].raised = "none"}

\* the entries of a batch for the SKU of a row
EntriesFor(batch, r) == {i \in 1..Len(batch) : batch[i].sku = r.sku}

\* row `after` is row `before` with the four columns of the batch entry and
\* the time of the statement
HitBy(before, after, p) ==
    /\ after.id = before.id /\ after.sku = before.sku
    /\ after.is_active = before.is_active
    /\ after.created_at = before.created_at
    /\ after.name = p.name /\ after.description = p.description
    /\ after.price = p.price /\ after.quantity = p.quantity
    /\ after.updated_at = clock

\* C33: the upsert leaves every row whose SKU is not in the batch as it was,
\* and of a row whose SKU is in the batch it replaces the name, description,
\* price, quantity and updated timestamp, keeping its id, SKU, active flag
\* and created timestamp; no row disappears.
C33_UpsertFrame ==
    [][\A o \in UpsertsExecuted : \A r \in products :
         IF EntriesFor(store_ops[o].batch, r) = {}
         THEN r \in products'
         ELSE \E after \in products' :
                 \A i \in EntriesFor(store_ops[o].batch, r) :
                     HitBy(r, after, store_ops[o].batch[i])]_vars

\* the inactive product A re-imported: new quantity and price, still
\* inactive, with its id and created timestamp
C33_Witness ==
    /\ \E o \in DOMAIN store_ops :
          /\ store_ops[o].kind = "upsert" /\ store_ops[o].pc = "done"
          /\ store_ops[o].updated = 1
    /\ \E r \in products :
          /\ r.id = ExistingProduct.id /\ r.sku = <<"A">>
          /\ ~r.is_active /\ r.created_at = ExistingProduct.created_at
          /\ r.quantity = 1 /\ r.updated_at > ExistingProduct.updated_at


\* ------------------------------------------- durable row and snapshot claims
AgreedFields == {"status", "processed_rows", "success_count", "error_count"}

\* the job row and the snapshot of j agree, or there is no snapshot
Agree(j) ==
    j \in DOMAIN progress =>
        \A f \in AgreedFields : progress[j][f] = import_jobs[j][f]

\* the jobs whose row is completed or failed and whose run is over
Settled ==
    {j \in DOMAIN task \cap DOMAIN import_jobs :
        TaskEnded(j) /\ import_jobs[j].status \in Terminal}

\* a progress update is published in this step
PublishesProgress(j) ==
    /\ task[j].pc = "L189"
    /\ j \in DOMAIN progress' /\ progress'[j].status = "importing"
    /\ task'[j].pc = "L155"

\* the second half of C34: the snapshot of a progress update carries the
\* counters the job row holds at that moment
ProgressMatchesRow ==
    [][\A j \in DOMAIN task :
         PublishesProgress(j) =>
            \A f \in AgreedFields \cup {"created_count", "updated_count"} :
                progress'[j][f] = import_jobs[j][f]]_vars

\* C34: once the run of a job is over and its row says completed or failed,
\* the snapshot, if there is one, has the row's status and its
\* processed_rows, success_count and error_count; and every progress update
\* publishes the counters of the job row.
C34_RowAndSnapshotAgree ==
    /\ [](\A j \in Settled : Agree(j))
    /\ ProgressMatchesRow

\* the same for the runs during which the fast channel never failed
C34_AgreeWhenChannelUp ==
    /\ [](\A j \in Settled : "fast_store" \notin task[j].faults => Agree(j))
    /\ ProgressMatchesRow

\* a failed job whose run is over and whose snapshot still says importing
C34_StaleSnapshot ==
    \E j \in Settled :
        /\ import_jobs[j].status = "failed"
        /\ j \in DOMAIN progress /\ progress[j].status = "importing"


\* ------------------------------------------------------ end of a run claims
\* the runs that found their job row and are over
RunsOver ==
    {j \in DOMAIN task \cap DOMAIN import_jobs :
        TaskEnded(j) /\ task[j].result # "Import job not found"}

\* C35: a run that found its job row and is over has left the row completed
\* or failed, whatever failed during the run.
C35_RunEndsTerminal ==
    \A j \in RunsOver : import_jobs[j].status \in Terminal

\* the same for the runs during which no commit on the job row and no upsert
\* was refused by an unavailable store
C35_TerminalWhenStoreUp ==
    \A j \in RunsOver :
        "store" \notin task[j].faults => import_jobs[j].status \in Terminal

\* a run that ended with the job row left in importing: the handler's own
\* commit raised
C35_LeftImporting ==
    \E j \in RunsOver :
        /\ import_jobs[j].status = "importing"
        /\ task[j].pc = "raised" /\ task[j].handler_exc # "none"


\* C36: a job has at most one import.completed event, and a job whose run is
\* over and that has one has a job row that says completed.
C36_EventOnlyForCompleted ==
    \A j \in DOMAIN task \cap DOMAIN import_jobs :
        /\ Cardinality(CompletedEvents(webhook_queue, j)) <= 1
        /\ (TaskEnded(j) /\ CompletedEvents(webhook_queue, j) # {})
              => import_jobs[j].status = "completed"

\* what holds: at most one event per job, none for a job that was never
\* completed
C36_AtMostOneEvent ==
    /\ \A j \in DOMAIN task : Cardinality(CompletedEvents(webhook_queue, j)) <= 1
    /\ [][\A j \in DOMAIN task :
            HandsOverEvent(j) => import_jobs[j].status = "completed"]_vars

\* a job that ended failed, its event handed over before the file removal
\* raised
C36_FailedAfterEvent ==
    \E j \in DOMAIN task \cap DOMAIN import_jobs :
        /\ TaskEnded(j)
        /\ import_jobs[j].status = "failed"
        /\ task[j].exc = "OSError"
        /\ CompletedEvents(webhook_queue, j) # {}


\* ------------------------------------------ snapshot of a deleted job claims
\* C37: a job whose deletion has been answered has no snapshot, whatever its
\* import task was doing when the deletion came in.
C37_NoSnapshotOfDeletedJob ==
    \A d \in Deletions : requests[d].job_id \notin DOMAIN progress

\* what holds of a job whose task had not loaded the row when the deletion
\* was answered: the task finds no row and returns without publishing
C37_NoSnapshotWhenStillQueued ==
    \A d \in Deletions :
        LET j == requests[d].job_id IN
        (j \in DOMAIN task
         /\ (task[j].pc = "queued" \/ task[j].result = "Import job not found"))
            => j \notin DOMAIN progress

\* the task of a deleted job that found no row
C37_QueuedTaskFoundNoRow ==
    \E d \in Deletions :
        /\ requests[d].job_id \in DOMAIN task
        /\ task[requests[d].job_id].result = "Import job not found"

\* a deleted job whose task ran during the deletion, has ended, and has left
\* a snapshot behind
C37_SnapshotOutlivesTask ==
    \E d \in Deletions :
        /\ TaskEnded(requests[d].job_id)
        /\ requests[d].job_id \in DOMAIN progress


\* --------------------------------------------- concurrent delivery claims
\* invocation x loaded the webhook row, and the other invocation d for the
\* same webhook has committed a failure count since: the two overlap
Overlapped(x, d) ==
    /\ x # d
    /\ deliveries[x].webhook_id = deliveries[d].webhook_id
    /\ deliveries[x].webhook_id \in DOMAIN webhooks
    /\ deliveries[x].state = "running"
    /\ deliveries[d].posts > 0
    /\ webhooks[deliveries[x].webhook_id].failure_count
          # deliveries[x].orm.failure_count

\* C38: when a failing delivery commits after an overlapping delivery to the
\* same webhook has, the stored failure count is the one a serial order of
\* the two gives: one above the count the other failure left, and 0 or 1
\* after the other's success.
C38_ConcurrentDeliveriesSerialize ==
    [][\A x, d \in DOMAIN deliveries :
         Overlapped(x, d) /\ Posted(x) /\ Failed(deliveries'[x]) =>
            LET w == deliveries[x].webhook_id
            IN IF Succeeded(deliveries[d])
               THEN webhooks'[w].failure_count \in {0, 1}
               ELSE webhooks'[w].failure_count = webhooks[w].failure_count + 1]_vars

\* C38, first half as a state predicate: two deliveries to one webhook that
\* made one POST each and both failed leave the count at 2.
C38_TwoFailuresCountTwo ==
    \A x, d \in DOMAIN deliveries :
        (/\ x # d
         /\ deliveries[x].webhook_id = deliveries[d].webhook_id
         /\ deliveries[x].webhook_id \in DOMAIN webhooks
         /\ deliveries[x].posts = 1 /\ Failed(deliveries[x])
         /\ deliveries[d].posts = 1 /\ Failed(deliveries[d]))
            => webhooks[deliveries[x].webhook_id].failure_count = 2

\* what the commit of an overlapping failure does: it stores one above the
\* count it had loaded
C38_CommitsLoadedPlusOne ==
    [][\A x, d \in DOMAIN deliveries :
         Overlapped(x, d) /\ Posted(x) /\ Failed(deliveries'[x]) =>
            webhooks'[deliveries[x].webhook_id].failure_count
               = deliveries[x].orm.failure_count + 1]_vars

\* two failed deliveries to one webhook, one POST each, and a count of 1
C38_LostIncrement ==
    \E x, d \in DOMAIN deliveries :
        /\ x # d
        /\ deliveries[x].webhook_id = deliveries[d].webhook_id
        /\ deliveries[x].webhook_id \in DOMAIN webhooks
        /\ deliveries[x].posts = 1 /\ Failed(deliveries[x])
        /\ deliveries[d].posts = 1 /\ Failed(deliveries[d])
        /\ webhooks[deliveries[x].webhook_id].failure_count = 1

\* a success that committed 0 after another delivery had loaded a count of
\* 1 for its second POST; the failure of that POST stores 2
C38_ResetOverwritten ==
    \E x, d \in DOMAIN deliveries :
        /\ Overlapped(x, d)
        /\ deliveries[d].posts = 1 /\ Succeeded(deliveries[d])
        /\ deliveries[x].orm.failure_count = 1
        /\ webhooks[deliveries[x].webhook_id].failure_count = 0


\* ------------------------------------------------- partial import claims
\* the data of the valid rows among the first n rows of the task's input
RECURSIVE ValidDataUpTo(_, _)
ValidDataUpTo(t, n) ==
    IF n = 0 THEN <<>>
    ELSE LET parsed == ParsedInput(t, n)
         IN IF ~Raised(parsed) /\ parsed.valid
            THEN Append(ValidDataUpTo(t, n - 1), parsed.data)
            ELSE ValidDataUpTo(t, n - 1)

\* the rows of the batches the task has flushed: the valid rows it has read
\* without those of the pending batch
FlushedRows(t) ==
    SubSeq(ValidDataUpTo(t, Len(InputRows(t))), 1, t.success_count - Len(t.batch))

\* the product table holds row p: a product with its SKU and its values
Stored(p) ==
    \E r \in products :
        /\ r.sku = p.sku /\ r.name = p.name /\ r.description = p.description
        /\ r.price = p.price /\ r.quantity = p.quantity

\* C39: from the moment an import has failed, the product table is the one
\* the job started with plus the rows of its flushed batches; the rows of the
\* pending batch are not in it.
C39_FailedImportKeepsFlushedBatches ==
    \A j \in DOMAIN task :
        task[j].exc # "none" =>
            products = UpsertRows(task[j].store_at_start, FlushedRows(task[j]),
                                  clock, clock)

\* C39 witness: a failed run that had flushed one batch and held another:
\* the flushed rows are stored, the pending one is not.
C39_Witness ==
    \E j \in DOMAIN task :
        /\ TaskEnded(j) /\ task[j].exc # "none"
        /\ Len(FlushedRows(task[j])) = CHUNK_SIZE
        /\ \A i \in 1..CHUNK_SIZE : Stored(FlushedRows(task[j])[i])
        /\ task[j].batch # <<>>
        /\ \A i \in 1..Len(task[j].batch) : ~Stored(task[j].batch[i])
        /\ products # task[j].store_at_start


\* ------------------------------------------------ concurrent import claims
\* only imports have used the store, and every upsert they began has ended
OnlyFinishedUpserts ==
    \A o \in DOMAIN store_ops :
        store_ops[o].kind = "upsert" /\ store_ops[o].pc = "done"

\* the rows the imports have inserted (the store's clock starts after the
\* creation time of the product that was there before)
InsertedRows == {r \in products : r.created_at # ExistingProduct.created_at}

RECURSIVE CreatedSum(_)
CreatedSum(ops) ==
    IF ops = {} THEN 0
    ELSE LET o == CHOOSE x \in ops : TRUE
         IN store_ops[o].created + CreatedSum(ops \ {o})

\* the upserts that committed their statement
CommittedUpserts ==
    {o \in DOMAIN store_ops :
        /\ store_ops[o].kind = "upsert" /\ store_ops[o].pc = "done"
        /\ store_ops[o].raised = "none"}

\* C40: when imports alone have written to the store, the created counts of
\* their upserts add up to the number of rows inserted, and every other
\* entry of a batch is counted as updated.
C40_CreatedCountsAddUp ==
    OnlyFinishedUpserts =>
        /\ CreatedSum(CommittedUpserts) = Cardinality(InsertedRows)
        /\ \A o \in CommittedUpserts :
              store_ops[o].created + store_ops[o].updated = Len(store_ops[o].batch)

\* what holds of every upsert: its two counts cover the batch; and of an
\* upsert no other transaction committed into between its query and its
\* statement: its created count is the number of rows it inserts
C40_CountsRightWithoutOverlap ==
    [][\A o \in UpsertsExecuted :
         /\ store_ops'[o].created + store_ops'[o].updated = Len(store_ops[o].batch)
         /\ store_ops[o].existing = existing_skus(products, store_ops[o].batch)
               => store_ops'[o].created
                     = Cardinality(products') - Cardinality(products)]_vars

\* two imports whose upserts both counted the one inserted row as created
C40_CountedTwice ==
    /\ OnlyFinishedUpserts
    /\ \E o1, o2 \in CommittedUpserts :
          /\ store_ops[o1].job # store_ops[o2].job
          /\ store_ops[o1].created = 1 /\ store_ops[o2].created = 1
          /\ store_ops[o1].updated = 0 /\ store_ops[o2].updated = 0
    /\ Cardinality(InsertedRows) = 1

\* two imports, one after the other, over the same new SKU: one created,
\* one updated, one row inserted
C40_CountedOnceInTurn ==
    /\ OnlyFinishedUpserts
    /\ \E o1, o2 \in CommittedUpserts :
          /\ store_ops[o1].job # store_ops[o2].job
          /\ store_ops[o1].created = 1 /\ store_ops[o2].created = 0
          /\ store_ops[o2].updated = 1
    /\ Cardinality(InsertedRows) = 1

====
